---- MODULE Spec2Model ----
(***************************************************************************)
(* Note-similarity and linking engine of highlight-workflow                *)
(* (src/src/services/noteLinking.ts over the note store of                 *)
(* src/src/services/notes.ts).                                             *)
(*                                                                         *)
(* A text is a sequence of one-character strings; a word is a string.      *)
(* A calendar date ('yyyy-MM-dd') is the number of its day, so daysDiff is *)
(* a whole number. An action point without assignee has assignee "".       *)
(* null is <<>> and a note that was found is <<note>>. limit and minScore  *)
(* are integers. Note ids are unique over all projects (generateId) and    *)
(* hold no '-'; titles hold letters and digits only. A call without a      *)
(* project name has the name "". The notes are created before the linking  *)
(* service runs: the files of a project's directory do not change.         *)
(***************************************************************************)
EXTENDS Integers, Sequences, FiniteSets, TLC

VARIABLES
    projectFiles,  \* project -> the ids held by the .md files of its directory, in readdir order
    linkedNotes,   \* note id -> the linkedNotes array stored in the note's file
    lastOp,        \* the last call of the linking service: arguments, returned value, writes
    scoreIn,       \* the two notes handed to calculateSimilarity
    scoreOut,      \* what calculateSimilarity returned for them, both ways round
    keywordsIn,    \* the text handed to extractKeywords
    keywordsOut,   \* what extractKeywords returned for it
    noteContent,   \* note id -> the body of the note's file
    calls,         \* process -> its call of the linking service, when calls run side by side
    applied        \* note id -> what each updateNoteWithObsidianLinks of the note found and left

vars == <<projectFiles, linkedNotes, lastOp, scoreIn, scoreOut, keywordsIn, keywordsOut,
          noteContent, calls, applied>>

(***************************************************************************)
(* Bounds of the model.                                                    *)
(***************************************************************************)
MaxTags == 2        \* longest tag array drawn for a scored note
MaxLimit == 3       \* largest `limit` argument drawn
MaxPieces == 3      \* most pieces a text handed to extractKeywords is put together from
MaxApplications == 2  \* most updateNoteWithObsidianLinks calls that find their note, in one run
MaxCalls == 2       \* most calls started in a run of two processes side by side

(***************************************************************************)
(* Characters.                                                             *)
(***************************************************************************)
UpperChars == <<"A", "B", "C", "D", "E", "F", "G", "H", "I", "J", "K", "L", "M", "N", "O", "P", "Q", "R", "S", "T", "U", "V", "W", "X", "Y", "Z">>
LowerChars == <<"a", "b", "c", "d", "e", "f", "g", "h", "i", "j", "k", "l", "m", "n", "o", "p", "q", "r", "s", "t", "u", "v", "w", "x", "y", "z">>
Digits == {"0", "1", "2", "3", "4", "5", "6", "7", "8", "9"}
Whitespace == {" ", "\n", "\t"}

\* String.prototype.toLowerCase, one character
toLowerCase(c) ==
    IF \E i \in 1..Len(UpperChars) : UpperChars[i] = c
    THEN LowerChars[CHOOSE i \in 1..Len(UpperChars) : UpperChars[i] = c]
    ELSE c

\* a replace that leaves every character as it is
keepNonWord(c) == c

\* .replace(/[^a-z0-9\s]/g, ' '), one character
replaceNonWord(c) ==
    IF (\E i \in 1..Len(LowerChars) : LowerChars[i] = c) \/ c \in Digits \/ c \in Whitespace
    THEN c
    ELSE " "

\* .split(/\s+/): the words between the maximal runs of whitespace, the empty
\* word before a leading run and after a trailing one included
RECURSIVE splitFrom(_, _, _, _)
splitFrom(text, i, cur, inWs) ==
    IF i > Len(text) THEN <<cur>>
    ELSE IF text[i] \in Whitespace
         THEN IF inWs THEN splitFrom(text, i + 1, cur, TRUE)
              ELSE <<cur>> \o splitFrom(text, i + 1, "", TRUE)
         ELSE splitFrom(text, i + 1, cur \o text[i], FALSE)

splitWhitespace(text) == splitFrom(text, 1, "", FALSE)

stopWords ==
    { "the", "a", "an", "and", "or", "but", "in", "on", "at", "to", "for",
      "of", "with", "by", "from", "as", "is", "was", "are", "were", "been",
      "be", "have", "has", "had", "do", "does", "did", "will", "would", "could",
      "should", "may", "might", "must", "shall", "can", "need", "dare", "ought",
      "used", "this", "that", "these", "those", "i", "you", "he", "she", "it",
      "we", "they", "what", "which", "who", "whom", "whose", "where", "when",
      "why", "how", "all", "each", "every", "both", "few", "more", "most",
      "other", "some", "such", "no", "nor", "not", "only", "own", "same", "so",
      "than", "too", "very", "just", "also", "now", "here", "there", "then" }

computeKeywords(text) ==
    LET cleaned == [i \in 1..Len(text) |-> replaceNonWord(toLowerCase(text[i]))]
        words == splitWhitespace(cleaned)
    IN  { words[i] : i \in { j \in 1..Len(words) : Len(words[j]) > 2 /\ words[j] \notin stopWords } }

(***************************************************************************)
(* Texts used by the notes of the model.                                   *)
(***************************************************************************)
TextSprintPlan == <<"S", "p", "r", "i", "n", "t", " ", "p", "l", "a", "n", " ", "r", "e", "v", "i", "e", "w">>
TextBacklog == <<"R", "e", "v", "i", "e", "w", " ", "s", "p", "r", "i", "n", "t", " ", "b", "a", "c", "k", "l", "o", "g">>
TextBudget == <<"B", "u", "d", "g", "e", "t", ":", " ", "Q", "3", " ", "n", "u", "m", "b", "e", "r", "s">>
TextDemo == <<"S", "p", "r", "i", "n", "t", " ", "r", "e", "v", "i", "e", "w", " ", "b", "a", "c", "k", "l", "o", "g", ",", " ", "d", "e", "m", "o", " ", "a", "n", "d", " ", "r", "o", "a", "d", "m", "a", "p">>
TextHiring == <<"S", "p", "r", "i", "n", "t", " ", "r", "e", "v", "i", "e", "w", " ", "b", "a", "c", "k", "l", "o", "g", ":", " ", "h", "i", "r", "i", "n", "g", ",", " ", "o", "n", "b", "o", "a", "r", "d", "i", "n", "g">>
\* a body kept by hand with a section of links of its own
TextBudgetLinked == TextBudget \o <<"\n", "\n", "#", "#", " ", "L", "i", "n", "k", "e", "d", " ", "N", "o", "t", "e", "s", "\n", "\n", "-", " ", "[", "[", "P", "l", "a", "n", "]", "]">>
TitlePlan == <<"P", "l", "a", "n">>
TitleRetro == <<"R", "e", "t", "r", "o">>
TitleBudget == <<"B", "u", "d", "g", "e", "t">>

\* the texts calculateSimilarity extracts keywords from: content + ' ' + title
NoteTexts ==
    { c \o e \o <<" ">> \o t :
          c \in {TextSprintPlan, TextBacklog, TextBudget, TextDemo, TextHiring, TextBudgetLinked},
          e \in {<<>>, <<"\n">>},
          t \in {TitlePlan, TitleRetro, TitleBudget} }

\* computeKeywords of the notes' texts, computed once
keywordsOfNoteTexts == [t \in NoteTexts |-> computeKeywords(t)]

extractKeywords(text) ==
    IF text \in NoteTexts THEN keywordsOfNoteTexts[text] ELSE computeKeywords(text)

(***************************************************************************)
(* Similarity of two notes.                                                *)
(***************************************************************************)
\* the elements of array s, as a set
Range(s) == { s[i] : i \in 1..Len(s) }

\* Math.abs
Abs(x) == IF x < 0 THEN -x ELSE x

\* Math.max
Max(x, y) == IF x >= y THEN x ELSE y

\* new Set(note.actionPoints.map(ap => ap.assignee).filter(Boolean)):
\* an action point without assignee, or with the empty name, gives none
assigneesOf(note) ==
    { note.actionPoints[i].assignee : i \in 1..Len(note.actionPoints) } \ {""}

\* note1.tags.filter(t => note2.tags.includes(t)).length
commonTags(note1, note2) ==
    Cardinality({ i \in 1..Len(note1.tags) : note1.tags[i] \in Range(note2.tags) })

\* a rounding that cuts the fraction off
roundDown(num, den) == num \div den

\* Math.round of the fraction num / den (den > 0): the nearest integer, halves up
round(num, den) == (2 * num + den) \div (2 * den)

\* The score is summed unrounded and rounded once at the end. Its only term that
\* is not a whole number is (overlap / totalKeywords) * 50, so the sum is carried
\* as a fraction over totalKeywords (over 1 when there are no keywords).
similarityScore(note1, note2) ==
    LET tagScore == commonTags(note1, note2) * 20
        keywords1 == extractKeywords(note1.content \o <<" ">> \o note1.title)
        keywords2 == extractKeywords(note2.content \o <<" ">> \o note2.title)
        overlap == Cardinality({ k \in keywords1 : k \in keywords2 })
        totalKeywords == Max(Cardinality(keywords1), Cardinality(keywords2))
        den == IF totalKeywords > 0 THEN totalKeywords ELSE 1
        keywordNum == IF totalKeywords > 0 THEN overlap * 50 ELSE 0
        projectScore == IF note1.project = note2.project THEN 10 ELSE 0
        daysDiff == Abs(note1.date - note2.date)
        dateScore == IF daysDiff <= 7 THEN 10 - daysDiff ELSE 0
        assignees1 == assigneesOf(note1)
        assignees2 == assigneesOf(note2)
        assigneeScore == 5 * Cardinality({ a \in assignees1 : a \in assignees2 })
    IN  round((tagScore + projectScore + dateScore + assigneeScore) * den + keywordNum, den)

\* calculateSimilarity without its first line
calculateSimilarityUnguarded(note1, note2) == similarityScore(note1, note2)

\* a score that is cut off at 100
calculateSimilarityClamped(note1, note2) ==
    IF note1.id = note2.id THEN 0
    ELSE IF similarityScore(note1, note2) > 100 THEN 100 ELSE similarityScore(note1, note2)

calculateSimilarity(note1, note2) ==
    IF note1.id = note2.id THEN 0 ELSE similarityScore(note1, note2)

(***************************************************************************)
(* The note store: the configured projects, the note files of each in      *)
(* directory order, and what each file holds besides its linkedNotes.      *)
(***************************************************************************)
\* config.projects, in configuration order
configProjects == <<"work", "home">>

\* the directories the service is run on: three notes in two projects, and one
\* note alone (no note was created in the second project)
TeamFiles == [p \in Range(configProjects) |->
                 IF p = "work" THEN <<"n1", "n2">> ELSE <<"n3">>]
SoloFiles == [p \in Range(configProjects) |->
                 IF p = "work" THEN <<"n1">> ELSE <<>>]

NoteIds == {"n1", "n2", "n3"}

\* the frontmatter and body of each note file, linkedNotes apart; the body
\* ends with the line end that noteToMarkdown writes
noteFiles ==
    [n \in NoteIds |->
        CASE n = "n1" -> [ id |-> "n1", title |-> TitlePlan, date |-> 10, project |-> "work",
                           content |-> TextSprintPlan \o <<"\n">>, tags |-> <<"sprint", "retro", "q3">>,
                           actionPoints |-> <<[assignee |-> "ann"]>> ]
          [] n = "n2" -> [ id |-> "n2", title |-> TitleRetro, date |-> 12, project |-> "work",
                           content |-> TextBacklog \o <<"\n">>, tags |-> <<"retro", "sprint", "q3">>,
                           actionPoints |-> <<[assignee |-> "bob"], [assignee |-> "ann"]>> ]
          [] n = "n3" -> [ id |-> "n3", title |-> TitleBudget, date |-> 11, project |-> "home",
                           content |-> TextBudget \o <<"\n">>, tags |-> <<"sprint">>,
                           actionPoints |-> <<[assignee |-> ""]>> ] ]


\* getProject: is the project configured
getProject(name) == name \in Range(configProjects)

\* markdownToNote: the note a file holds, with the link array stored in it
markdownToNote(store, id) ==
    [ id |-> noteFiles[id].id, title |-> noteFiles[id].title, date |-> noteFiles[id].date,
      project |-> noteFiles[id].project, content |-> noteContent[id],
      tags |-> noteFiles[id].tags, actionPoints |-> noteFiles[id].actionPoints,
      linkedNotes |-> store[id] ]

\* getNote: <<note>> when a file of the project holds the id, <<>> for null
getNote(store, projectName, noteId) ==
    IF ~getProject(projectName) THEN <<>>
    ELSE IF noteId \in Range(projectFiles[projectName])
         THEN <<markdownToNote(store, noteId)>>
         ELSE <<>>

\* an insertion that puts an element before the elements of equal key
insertDescBeforeEqual(sorted, x) ==
    LET pos == Cardinality({ i \in 1..Len(sorted) : sorted[i].key > x.key })
    IN  SubSeq(sorted, 1, pos) \o <<x>> \o SubSeq(sorted, pos + 1, Len(sorted))

\* the array s sorted by descending key, equal keys keeping their order
\* (Array.prototype.sort is stable)
insertDesc(sorted, x) ==
    LET pos == Cardinality({ i \in 1..Len(sorted) : sorted[i].key >= x.key })
    IN  SubSeq(sorted, 1, pos) \o <<x>> \o SubSeq(sorted, pos + 1, Len(sorted))

RECURSIVE sortDesc(_)
sortDesc(s) ==
    IF s = <<>> THEN <<>>
    ELSE insertDesc(sortDesc(SubSeq(s, 1, Len(s) - 1)), s[Len(s)])

\* listNotes: the notes of a project, newest date first
listNotes(store, projectName) ==
    IF ~getProject(projectName) THEN <<>>
    ELSE LET files == projectFiles[projectName]
             keyed == [i \in 1..Len(files) |->
                          [key |-> noteFiles[files[i]].date,
                           note |-> markdownToNote(store, files[i])]]
             sorted == sortDesc(keyed)
         IN  [i \in 1..Len(sorted) |-> sorted[i].note]

\* updateNote with { linkedNotes }: rewrites the file that holds the id; no file
\* holds it: nothing is written (null)
updateNote(store, projectName, noteId, links) ==
    IF getNote(store, projectName, noteId) = <<>> THEN store
    ELSE [store EXCEPT ![noteId] = links]

(***************************************************************************)
(* The linking service.                                                    *)
(***************************************************************************)
\* links.some(l => l.noteId === noteId)
hasLinkTo(links, noteId) == \E i \in 1..Len(links) : links[i].noteId = noteId

\* a filter that drops only the first entry for the note
RECURSIVE withoutFirstLinkTo(_, _)
withoutFirstLinkTo(links, noteId) ==
    IF links = <<>> THEN <<>>
    ELSE IF Head(links).noteId = noteId
         THEN Tail(links)
         ELSE <<Head(links)>> \o withoutFirstLinkTo(Tail(links), noteId)

\* links.filter(l => l.noteId !== noteId)
RECURSIVE withoutLinksTo(_, _)
withoutLinksTo(links, noteId) ==
    IF links = <<>> THEN <<>>
    ELSE IF Head(links).noteId = noteId
         THEN withoutLinksTo(Tail(links), noteId)
         ELSE <<Head(links)>> \o withoutLinksTo(Tail(links), noteId)

\* every note of every configured project, project by project
RECURSIVE allNotesFrom(_, _)
allNotesFrom(store, i) ==
    IF i > Len(configProjects) THEN <<>>
    ELSE listNotes(store, configProjects[i]) \o allNotesFrom(store, i + 1)

\* items.filter(item => item.score >= minScore)
RECURSIVE filterMinScore(_, _)
filterMinScore(items, minScore) ==
    IF items = <<>> THEN <<>>
    ELSE IF Head(items).key >= minScore
         THEN <<Head(items)>> \o filterMinScore(Tail(items), minScore)
         ELSE filterMinScore(Tail(items), minScore)

\* a slice that keeps one element more
slice0OneMore(s, end) ==
    LET to == IF end >= 0 THEN (IF end + 1 < Len(s) THEN end + 1 ELSE Len(s))
              ELSE Max(Len(s) + end, 0)
    IN  SubSeq(s, 1, to)

\* Array.prototype.slice(0, end): a negative end counts from the end of the array
slice0(s, end) ==
    LET to == IF end >= 0 THEN (IF end < Len(s) THEN end ELSE Len(s))
              ELSE Max(Len(s) + end, 0)
    IN  SubSeq(s, 1, to)

findRelatedNotes(store, projectName, noteId, limit, minScore) ==
    LET sourceNote == getNote(store, projectName, noteId)
    IN  IF sourceNote = <<>> THEN <<>>
        ELSE
        LET allNotes == allNotesFrom(store, 1)
            mapped == [i \in 1..Len(allNotes) |->
                          [note |-> allNotes[i],
                           key |-> calculateSimilarity(sourceNote[1], allNotes[i])]]
            scored == slice0(sortDesc(filterMinScore(mapped, minScore)), limit)
        IN  [i \in 1..Len(scored) |->
                [ noteId |-> scored[i].note.id,
                  noteTitle |-> scored[i].note.title,
                  project |-> scored[i].note.project,
                  linkType |-> "related",
                  relevanceScore |-> scored[i].key ]]

\* linkNotes without the already-linked check
linkNotesUnchecked(store, sourceProject, sourceNoteId, targetProject, targetNoteId) ==
    LET sourceNote == getNote(store, sourceProject, sourceNoteId)
        targetNote == getNote(store, targetProject, targetNoteId)
    IN  IF sourceNote = <<>> \/ targetNote = <<>>
        THEN [ store |-> store, success |-> FALSE,
               message |-> "One or both notes not found", writes |-> <<>> ]
        ELSE
        LET sourceLinks == Append(sourceNote[1].linkedNotes,
                               [ noteId |-> targetNoteId, noteTitle |-> targetNote[1].title,
                                 project |-> targetProject, linkType |-> "manual" ])
            targetLinks == Append(targetNote[1].linkedNotes,
                               [ noteId |-> sourceNoteId, noteTitle |-> sourceNote[1].title,
                                 project |-> sourceProject, linkType |-> "backlink" ])
            store1 == updateNote(store, sourceProject, sourceNoteId, sourceLinks)
            store2 == updateNote(store1, targetProject, targetNoteId, targetLinks)
        IN  [ store |-> store2, success |-> TRUE, message |-> "Linked",
              writes |-> <<sourceNoteId, targetNoteId>> ]

\* linkNotes that writes lists of the new entry alone
linkNotesFresh(store, sourceProject, sourceNoteId, targetProject, targetNoteId) ==
    LET sourceNote == getNote(store, sourceProject, sourceNoteId)
        targetNote == getNote(store, targetProject, targetNoteId)
    IN  IF sourceNote = <<>> \/ targetNote = <<>>
        THEN [ store |-> store, success |-> FALSE,
               message |-> "One or both notes not found", writes |-> <<>> ]
        ELSE IF hasLinkTo(sourceNote[1].linkedNotes, targetNoteId)
        THEN [ store |-> store, success |-> FALSE,
               message |-> "Notes are already linked", writes |-> <<>> ]
        ELSE
        LET sourceLinks == << [ noteId |-> targetNoteId, noteTitle |-> targetNote[1].title,
                                project |-> targetProject, linkType |-> "manual" ] >>
            targetLinks == << [ noteId |-> sourceNoteId, noteTitle |-> sourceNote[1].title,
                                project |-> sourceProject, linkType |-> "backlink" ] >>
            store1 == updateNote(store, sourceProject, sourceNoteId, sourceLinks)
            store2 == updateNote(store1, targetProject, targetNoteId, targetLinks)
        IN  [ store |-> store2, success |-> TRUE, message |-> "Linked",
              writes |-> <<sourceNoteId, targetNoteId>> ]

\* linkNotes that writes the source before it looks at the target
linkNotesSourceFirst(store, sourceProject, sourceNoteId, targetProject, targetNoteId) ==
    LET sourceNote == getNote(store, sourceProject, sourceNoteId)
        targetNote == getNote(store, targetProject, targetNoteId)
    IN  IF sourceNote = <<>>
        THEN [ store |-> store, success |-> FALSE,
               message |-> "One or both notes not found", writes |-> <<>> ]
        ELSE IF hasLinkTo(sourceNote[1].linkedNotes, targetNoteId)
        THEN [ store |-> store, success |-> FALSE,
               message |-> "Notes are already linked", writes |-> <<>> ]
        ELSE
        LET sourceLinks == Append(sourceNote[1].linkedNotes,
                               [ noteId |-> targetNoteId, noteTitle |-> <<>>,
                                 project |-> targetProject, linkType |-> "manual" ])
            store1 == updateNote(store, sourceProject, sourceNoteId, sourceLinks)
        IN  IF targetNote = <<>>
            THEN [ store |-> store1, success |-> FALSE,
                   message |-> "One or both notes not found", writes |-> <<sourceNoteId>> ]
            ELSE
            LET targetLinks == Append(targetNote[1].linkedNotes,
                                   [ noteId |-> sourceNoteId, noteTitle |-> sourceNote[1].title,
                                     project |-> sourceProject, linkType |-> "backlink" ])
            IN  [ store |-> updateNote(store1, targetProject, targetNoteId, targetLinks),
                  success |-> TRUE, message |-> "Linked",
                  writes |-> <<sourceNoteId, targetNoteId>> ]

\* The two notes are read into two objects before anything is written, each
\* object gets its entry, and the two files are written one after the other:
\* source first, target second.
linkNotes(store, sourceProject, sourceNoteId, targetProject, targetNoteId) ==
    LET sourceNote == getNote(store, sourceProject, sourceNoteId)
        targetNote == getNote(store, targetProject, targetNoteId)
    IN  IF sourceNote = <<>> \/ targetNote = <<>>
        THEN [ store |-> store, success |-> FALSE,
               message |-> "One or both notes not found", writes |-> <<>> ]
        ELSE IF hasLinkTo(sourceNote[1].linkedNotes, targetNoteId)
        THEN [ store |-> store, success |-> FALSE,
               message |-> "Notes are already linked", writes |-> <<>> ]
        ELSE
        LET sourceLinks == Append(sourceNote[1].linkedNotes,
                               [ noteId |-> targetNoteId, noteTitle |-> targetNote[1].title,
                                 project |-> targetProject, linkType |-> "manual" ])
            targetLinks == Append(targetNote[1].linkedNotes,
                               [ noteId |-> sourceNoteId, noteTitle |-> sourceNote[1].title,
                                 project |-> sourceProject, linkType |-> "backlink" ])
            store1 == updateNote(store, sourceProject, sourceNoteId, sourceLinks)
            store2 == updateNote(store1, targetProject, targetNoteId, targetLinks)
        IN  [ store |-> store2, success |-> TRUE, message |-> "Linked",
              writes |-> <<sourceNoteId, targetNoteId>> ]

\* linkNotes whose failed second write takes the first one back
linkNotesWriteFailsUndone(store, sourceProject, sourceNoteId, targetProject, targetNoteId, failAt) ==
    LET r == linkNotes(store, sourceProject, sourceNoteId, targetProject, targetNoteId)
    IN  [ store |-> store, success |-> FALSE,
          message |-> IF r.success THEN "write failed" ELSE r.message,
          writes |-> <<>>, thrown |-> r.success ]

\* linkNotes when writeFileSync throws inside its first (failAt = 1) or its second
\* (failAt = 2) updateNote: the exception leaves linkNotes at that line, what
\* was written before it stays written, and the caller gets the error.
linkNotesWriteFails(store, sourceProject, sourceNoteId, targetProject, targetNoteId, failAt) ==
    LET sourceNote == getNote(store, sourceProject, sourceNoteId)
        targetNote == getNote(store, targetProject, targetNoteId)
    IN  IF sourceNote = <<>> \/ targetNote = <<>>
        THEN [ store |-> store, success |-> FALSE,
               message |-> "One or both notes not found", writes |-> <<>>,
               thrown |-> FALSE ]
        ELSE IF hasLinkTo(sourceNote[1].linkedNotes, targetNoteId)
        THEN [ store |-> store, success |-> FALSE,
               message |-> "Notes are already linked", writes |-> <<>>,
               thrown |-> FALSE ]
        ELSE
        LET sourceLinks == Append(sourceNote[1].linkedNotes,
                               [ noteId |-> targetNoteId, noteTitle |-> targetNote[1].title,
                                 project |-> targetProject, linkType |-> "manual" ])
            store1 == updateNote(store, sourceProject, sourceNoteId, sourceLinks)
        IN  IF failAt = 1
            THEN [ store |-> store, success |-> FALSE, message |-> "write failed",
                   writes |-> <<>>, thrown |-> TRUE ]
            ELSE [ store |-> store1, success |-> FALSE, message |-> "write failed",
                   writes |-> <<sourceNoteId>>, thrown |-> TRUE ]

\* unlinkNotes that forgets the target's side
unlinkNotesSourceOnly(store, sourceProject, sourceNoteId, targetProject, targetNoteId) ==
    LET sourceNote == getNote(store, sourceProject, sourceNoteId)
        targetNote == getNote(store, targetProject, targetNoteId)
    IN  IF sourceNote = <<>> \/ targetNote = <<>>
        THEN [ store |-> store, success |-> FALSE,
               message |-> "One or both notes not found", writes |-> <<>> ]
        ELSE
        LET sourceLinks == withoutLinksTo(sourceNote[1].linkedNotes, targetNoteId)
        IN  [ store |-> updateNote(store, sourceProject, sourceNoteId, sourceLinks),
              success |-> TRUE, message |-> "Notes unlinked", writes |-> <<sourceNoteId>> ]

\* unlinkNotes that asks for an entry in the source, as linkNotes asks for none
unlinkNotesLinkedOnly(store, sourceProject, sourceNoteId, targetProject, targetNoteId) ==
    LET sourceNote == getNote(store, sourceProject, sourceNoteId)
        targetNote == getNote(store, targetProject, targetNoteId)
    IN  IF sourceNote = <<>> \/ targetNote = <<>>
        THEN [ store |-> store, success |-> FALSE,
               message |-> "One or both notes not found", writes |-> <<>> ]
        ELSE IF ~hasLinkTo(sourceNote[1].linkedNotes, targetNoteId)
        THEN [ store |-> store, success |-> FALSE,
               message |-> "Notes are not linked", writes |-> <<>> ]
        ELSE
        LET sourceLinks == withoutLinksTo(sourceNote[1].linkedNotes, targetNoteId)
            targetLinks == withoutLinksTo(targetNote[1].linkedNotes, sourceNoteId)
            store1 == updateNote(store, sourceProject, sourceNoteId, sourceLinks)
            store2 == updateNote(store1, targetProject, targetNoteId, targetLinks)
        IN  [ store |-> store2, success |-> TRUE, message |-> "Notes unlinked",
              writes |-> <<sourceNoteId, targetNoteId>> ]

\* markdownToNote always gives a note a linkedNotes array, so both sides are
\* filtered and written.
unlinkNotes(store, sourceProject, sourceNoteId, targetProject, targetNoteId) ==
    LET sourceNote == getNote(store, sourceProject, sourceNoteId)
        targetNote == getNote(store, targetProject, targetNoteId)
    IN  IF sourceNote = <<>> \/ targetNote = <<>>
        THEN [ store |-> store, success |-> FALSE,
               message |-> "One or both notes not found", writes |-> <<>> ]
        ELSE
        LET sourceLinks == withoutLinksTo(sourceNote[1].linkedNotes, targetNoteId)
            targetLinks == withoutLinksTo(targetNote[1].linkedNotes, sourceNoteId)
            store1 == updateNote(store, sourceProject, sourceNoteId, sourceLinks)
            store2 == updateNote(store1, targetProject, targetNoteId, targetLinks)
        IN  [ store |-> store2, success |-> TRUE, message |-> "Notes unlinked",
              writes |-> <<sourceNoteId, targetNoteId>> ]

getLinkedNotes(store, projectName, noteId) ==
    LET note == getNote(store, projectName, noteId)
    IN  IF note = <<>> THEN <<>> ELSE note[1].linkedNotes

\* the loop without its already-linked check
RECURSIVE addRelatedUnchecked(_, _, _, _)
addRelatedUnchecked(related, i, links, newLinks) ==
    IF i > Len(related) THEN [links |-> links, newLinks |-> newLinks]
    ELSE addRelatedUnchecked(related, i + 1, Append(links, related[i]),
                             Append(newLinks, related[i]))

\* a loop that puts each new link in front of the list
RECURSIVE addRelatedInFront(_, _, _, _)
addRelatedInFront(related, i, links, newLinks) ==
    IF i > Len(related) THEN [links |-> links, newLinks |-> newLinks]
    ELSE IF hasLinkTo(links, related[i].noteId)
         THEN addRelatedInFront(related, i + 1, links, newLinks)
         ELSE addRelatedInFront(related, i + 1, <<related[i]>> \o links,
                                Append(newLinks, related[i]))

\* the loop over `related`: [links, newLinks] after the candidates from i on
RECURSIVE addRelated(_, _, _, _)
addRelated(related, i, links, newLinks) ==
    IF i > Len(related) THEN [links |-> links, newLinks |-> newLinks]
    ELSE IF hasLinkTo(links, related[i].noteId)
         THEN addRelated(related, i + 1, links, newLinks)
         ELSE addRelated(related, i + 1, Append(links, related[i]), Append(newLinks, related[i]))

\* the store once each newly linked note has got a backlink to the source
RECURSIVE withBacklinks(_, _, _, _)
withBacklinks(store, noteId, newLinks, i) ==
    IF i > Len(newLinks) THEN store
    ELSE withBacklinks([store EXCEPT ![newLinks[i].noteId] =
                           Append(@, [ noteId |-> noteId, noteTitle |-> noteFiles[noteId].title,
                                       project |-> noteFiles[noteId].project,
                                       linkType |-> "backlink" ])],
                       noteId, newLinks, i + 1)

\* an end that links both ways, as linkNotes does
persistNewLinksBothWays(store, projectName, noteId, added) ==
    IF Len(added.newLinks) > 0
    THEN [ store |-> withBacklinks(updateNote(store, projectName, noteId, added.links),
                                   noteId, added.newLinks, 1),
           ret |-> added.newLinks,
           writes |-> <<noteId>> \o [i \in 1..Len(added.newLinks) |-> added.newLinks[i].noteId] ]
    ELSE [ store |-> store, ret |-> added.newLinks, writes |-> <<>> ]

\* an end that writes the source whether links were added or not
persistLinksAlways(store, projectName, noteId, added) ==
    [ store |-> updateNote(store, projectName, noteId, added.links),
      ret |-> added.newLinks, writes |-> <<noteId>> ]

\* the end of autoLinkRelatedNotes: one write of the source when links were added
persistNewLinks(store, projectName, noteId, added) ==
    IF Len(added.newLinks) > 0
    THEN [ store |-> updateNote(store, projectName, noteId, added.links),
           ret |-> added.newLinks, writes |-> <<noteId>> ]
    ELSE [ store |-> store, ret |-> added.newLinks, writes |-> <<>> ]

\* autoLinkRelatedNotes once `related` is found and the note is read again
addNewLinks(store, projectName, noteId, related, note) ==
    IF Len(related) = 0 \/ note = <<>>
    THEN [ store |-> store, ret |-> <<>>, writes |-> <<>> ]
    ELSE persistNewLinks(store, projectName, noteId,
                         addRelated(related, 1, note[1].linkedNotes, <<>>))

autoLinkRelatedNotes(store, projectName, noteId, limit, minScore) ==
    addNewLinks(store, projectName, noteId,
                findRelatedNotes(store, projectName, noteId, limit, minScore),
                getNote(store, projectName, noteId))

\* String.prototype.toLowerCase
lowerText(text) == [i \in 1..Len(text) |-> toLowerCase(text[i])]

\* String.prototype.includes
includes(text, part) ==
    \E i \in 0..(Len(text) - Len(part)) : SubSeq(text, i + 1, i + Len(part)) = part

\* new RegExp(`\\[\\[${title}\\]\\]`, 'i').test(content), for a title of letters and digits
wikiLinkTest(content, title) ==
    includes(lowerText(content), <<"[", "[">> \o lowerText(title) \o <<"]", "]">>)

\* the loop over the notes of one project: `backlinks` after the notes from i on
RECURSIVE backlinksIn(_, _, _, _, _)
backlinksIn(notes, projectName, targetNote, i, backlinks) ==
    IF i > Len(notes) THEN backlinks
    ELSE IF notes[i].id = targetNote.id
         THEN backlinksIn(notes, projectName, targetNote, i + 1, backlinks)
         ELSE IF wikiLinkTest(notes[i].content, targetNote.title)
                 \/ includes(lowerText(notes[i].content), lowerText(targetNote.title))
              THEN backlinksIn(notes, projectName, targetNote, i + 1,
                               Append(backlinks,
                                      [ noteId |-> notes[i].id, noteTitle |-> notes[i].title,
                                        project |-> projectName, linkType |-> "backlink" ]))
              ELSE backlinksIn(notes, projectName, targetNote, i + 1, backlinks)

\* the loop over config.projects: `backlinks` after the projects from i on
RECURSIVE backlinksFrom(_, _, _, _)
backlinksFrom(store, targetNote, i, backlinks) ==
    IF i > Len(configProjects) THEN backlinks
    ELSE backlinksFrom(store, targetNote, i + 1,
                       backlinksIn(listNotes(store, configProjects[i]), configProjects[i],
                                   targetNote, 1, backlinks))

findBacklinks(store, projectName, noteId) ==
    IF getNote(store, projectName, noteId) = <<>> THEN <<>>
    ELSE backlinksFrom(store, getNote(store, projectName, noteId)[1], 1, <<>>)

\* the line end that matter.stringify puts after a body that has none
newline(str) ==
    IF str # <<>> /\ str[Len(str)] = "\n" THEN str ELSE Append(str, "\n")

HeadingRelated == <<"#", "#", " ", "R", "e", "l", "a", "t", "e", "d", " ", "N", "o", "t", "e", "s">>
HeadingLinked == <<"#", "#", " ", "L", "i", "n", "k", "e", "d", " ", "N", "o", "t", "e", "s">>

\* the icon of a link line, one glyph each, written here as a word
iconOf(linkType) ==
    IF linkType = "backlink" THEN "(back)"
    ELSE IF linkType = "related" THEN "(related)"
    ELSE "(link)"

DigitChars == <<"0", "1", "2", "3", "4", "5", "6", "7", "8", "9">>

\* the decimal digits of a whole number n >= 0, as template literals write it
RECURSIVE decimalText(_)
decimalText(n) ==
    IF n < 10 THEN <<DigitChars[n + 1]>>
    ELSE decimalText(n \div 10) \o <<DigitChars[(n % 10) + 1]>>

\* link.relevanceScore ? ` (${link.relevanceScore}% match)` : ''
scoreText(link) ==
    IF "relevanceScore" \in DOMAIN link /\ link.relevanceScore # 0
    THEN <<" ", "(">> \o decimalText(link.relevanceScore)
             \o <<"%", " ", "m", "a", "t", "c", "h", ")">>
    ELSE <<>>

\* `- ${icon} [[${link.noteTitle}]]${score}`
linkLine(link) ==
    <<"-", " ", iconOf(link.linkType), " ", "[", "[">> \o link.noteTitle \o <<"]", "]">>
        \o scoreText(link)

\* Array.prototype.join('\n')
RECURSIVE joinLines(_)
joinLines(lines) ==
    IF lines = <<>> THEN <<>>
    ELSE IF Len(lines) = 1 THEN lines[1]
    ELSE lines[1] \o <<"\n">> \o joinLines(Tail(lines))

\* the section of links, whatever the content holds
linksSection(links) ==
    joinLines(<< <<>>, <<"-", "-", "-">>, <<>>, HeadingRelated, <<>> >>
              \o [i \in 1..Len(links) |-> linkLine(links[i])])

\* a generator that does not look for a heading
generateObsidianLinksAlways(note) ==
    IF Len(note.linkedNotes) = 0 THEN note.content
    ELSE note.content \o linksSection(note.linkedNotes)

generateObsidianLinks(note) ==
    IF Len(note.linkedNotes) = 0 THEN note.content
    ELSE IF ~includes(note.content, HeadingRelated) /\ ~includes(note.content, HeadingLinked)
         THEN note.content \o linksSection(note.linkedNotes)
         ELSE note.content

\* updateNote with { content }: rewrites the file that holds the id; the body
\* read back from it is the body written, line end included
updateNoteContent(contents, store, projectName, noteId, content) ==
    IF getNote(store, projectName, noteId) = <<>> THEN contents
    ELSE [contents EXCEPT ![noteId] = newline(content)]

\* the contents of the files after updateNoteWithObsidianLinks, and whether the
\* note was found
updateNoteWithObsidianLinks(contents, store, projectName, noteId) ==
    LET note == getNote(store, projectName, noteId)
    IN  IF note = <<>> THEN [ found |-> FALSE, contents |-> contents ]
        ELSE [ found |-> TRUE,
               contents |-> updateNoteContent(contents, store, projectName, noteId,
                                              generateObsidianLinks(note[1])) ]

\* the note ids in the order of their code units, as Array.prototype.sort orders them
idsInOrder == <<"n1", "n2", "n3", "n9">>

\* a key that tells the two directions apart
edgeKeyDirected(a, b) == a \o "-" \o b

\* [a, b].sort().join('-')
edgeKey(a, b) ==
    LET rank(id) == CHOOSE i \in 1..Len(idsInOrder) : idsInOrder[i] = id
    IN  IF rank(a) <= rank(b) THEN a \o "-" \o b ELSE b \o "-" \o a

\* the loop over note.linkedNotes: [nodes, edges, seenEdges] after the entries from i on
RECURSIVE graphLinks(_, _, _)
graphLinks(note, i, g) ==
    IF i > Len(note.linkedNotes) THEN g
    ELSE IF edgeKey(note.id, note.linkedNotes[i].noteId) \in g.seenEdges
         THEN graphLinks(note, i + 1, g)
         ELSE graphLinks(note, i + 1,
                         [ nodes |-> g.nodes,
                           edges |-> Append(g.edges,
                                            [ source |-> note.id,
                                              target |-> note.linkedNotes[i].noteId,
                                              type |-> note.linkedNotes[i].linkType ]),
                           seenEdges |-> g.seenEdges
                                            \cup {edgeKey(note.id, note.linkedNotes[i].noteId)} ])

\* a loop that makes nodes of the notes that hold links only
RECURSIVE graphNotesLinkedOnly(_, _, _, _)
graphNotesLinkedOnly(notes, projectName, i, g) ==
    IF i > Len(notes) THEN g
    ELSE graphNotesLinkedOnly(notes, projectName, i + 1,
             graphLinks(notes[i], 1,
                        [ nodes |-> IF notes[i].linkedNotes = <<>> THEN g.nodes
                                    ELSE Append(g.nodes,
                                                [ id |-> notes[i].id, title |-> notes[i].title,
                                                  project |-> projectName ]),
                          edges |-> g.edges, seenEdges |-> g.seenEdges ]))

\* the loop over the notes of one project
RECURSIVE graphNotes(_, _, _, _)
graphNotes(notes, projectName, i, g) ==
    IF i > Len(notes) THEN g
    ELSE graphNotes(notes, projectName, i + 1,
                    graphLinks(notes[i], 1,
                               [ nodes |-> Append(g.nodes,
                                                  [ id |-> notes[i].id, title |-> notes[i].title,
                                                    project |-> projectName ]),
                                 edges |-> g.edges, seenEdges |-> g.seenEdges ]))

\* the loop over `projects`
RECURSIVE graphProjects(_, _, _, _)
graphProjects(store, projects, i, g) ==
    IF i > Len(projects) THEN g
    ELSE graphProjects(store, projects, i + 1,
                       graphNotes(listNotes(store, projects[i]), projects[i], 1, g))

\* a choice of projects that takes the first project when no name is given
projectsFirstOnly(projectName) ==
    IF projectName = "" THEN SubSeq(configProjects, 1, 1)
    ELSE SelectSeq(configProjects, LAMBDA p : p = projectName)

\* projectName ? config.projects.filter(p => p.name === projectName) : config.projects
\* (no name given is "", which is as falsy as undefined)
projectsOf(projectName) ==
    IF projectName = "" THEN configProjects
    ELSE SelectSeq(configProjects, LAMBDA p : p = projectName)

\* what getNoteGraph returns: seenEdges stays behind
graphOf(g) == [ nodes |-> g.nodes, edges |-> g.edges ]

getNoteGraph(store, projectName) ==
    graphOf(graphProjects(store, projectsOf(projectName), 1,
                          [ nodes |-> <<>>, edges |-> <<>>, seenEdges |-> {} ]))

(***************************************************************************)
(* The calls of the service, one caller at a time, every write succeeding. *)
(***************************************************************************)
\* The arguments drawn. A (project, id) pair names a note, or no note: a
\* project that is not configured, an id no file of the project holds.
MissingArgs == {<<"archive", "n1">>, <<"work", "n9">>, <<"home", "n1">>}
NoteArgs == {<<"work", "n1">>, <<"work", "n2">>, <<"home", "n3">>}
\* linkNotes and unlinkNotes: n1 with itself and with each other note, both ways
\* round, and each way a note can be missing
LinkArgs ==
    { <<s, t>> \in NoteArgs \X NoteArgs : s[2] = "n1" \/ t[2] = "n1" }
    \cup { <<m, <<"work", "n1">>>> : m \in MissingArgs }
    \cup { <<<<"work", "n2">>, m>> : m \in MissingArgs }
\* autoLinkRelatedNotes: from n1, from n2, and from a missing note
AutoArgs == {<<"work", "n1">>, <<"work", "n2">>, <<"archive", "n1">>, <<"work", "n9">>}
\* findRelatedNotes: from every note, and from a missing one
FindArgs == NoteArgs \cup {<<"archive", "n1">>, <<"work", "n9">>}
\* getNoteGraph: without a project, of each project, of a project not configured
GraphArgs == {"", "work", "home", "archive"}
\* limit is any number the schema accepts: negative ones included
LimitArgs == -1..MaxLimit
\* minScore: 0, the default of autoLinkRelatedNotes (every score of two different
\* notes reaches it), and one between the scores of the notes
MinScoreArgs == {0, 20, 30}

\* lastOp.before is the store the call started from, lastOp.writes the files
\* the call rewrote (each rewrite sets the file's updatedAt), in order
NoOp == [ op |-> "none", args |-> <<>>, success |-> FALSE, message |-> "",
          ret |-> <<>>, writes |-> <<>>, before |-> [n \in NoteIds |-> <<>>],
          graph |-> [nodes |-> <<>>, edges |-> <<>>], thrown |-> FALSE ]

\* the processes that call the service side by side
Procs == {"p1", "p2"}

\* a process that is in no call. A call keeps what it read (`read`: the lists
\* of the notes it has read, as they were then), the writes it still has to do
\* (`pending`), and the writes it did (`wrote`: the note, the list written, the
\* list the file held just before, and whether the write is still the latest
\* one of that note); `started` counts the calls of the process.
IdleCall == [ pc |-> "idle", op |-> "none", args |-> <<>>,
              read |-> [n \in NoteIds |-> <<>>], pending |-> <<>>, wrote |-> <<>>,
              success |-> FALSE, message |-> "", started |-> 0 ]

Init ==
    /\ projectFiles \in {TeamFiles, SoloFiles}
    /\ linkedNotes = [n \in NoteIds |-> <<>>]
    /\ lastOp = NoOp
    /\ scoreIn = <<>>
    /\ scoreOut = [called |-> FALSE, ab |-> 0, ba |-> 0]
    /\ keywordsIn = <<>>
    /\ keywordsOut = [called |-> FALSE, keywords |-> {}]
    /\ noteContent = [n \in NoteIds |-> noteFiles[n].content]
    /\ calls = [p \in Procs |-> IdleCall]
    /\ applied = [n \in NoteIds |-> <<>>]

\* a call that returns r: the store it leaves and what the caller gets
\* updateNote writes the whole note back, its body with it
rewritten(contents, writes) ==
    [n \in NoteIds |-> IF n \in Range(writes) THEN newline(contents[n]) ELSE contents[n]]

Respond(op, args, r) ==
    /\ linkedNotes' = r.store
    /\ lastOp' = [ op |-> op, args |-> args, success |-> r.success, message |-> r.message,
                   ret |-> r.ret, writes |-> r.writes, before |-> linkedNotes,
                   graph |-> NoOp.graph, thrown |-> FALSE ]
    /\ noteContent' = rewritten(noteContent, r.writes)
    /\ UNCHANGED <<projectFiles, scoreIn, scoreOut, keywordsIn, keywordsOut, calls, applied>>

\* the handlers' results, as one record shape
linkResult(r) ==
    [ store |-> r.store, success |-> r.success, message |-> r.message,
      ret |-> <<>>, writes |-> r.writes ]

autoLinkResult(r) ==
    [ store |-> r.store, success |-> TRUE, message |-> "", ret |-> r.ret,
      writes |-> r.writes ]

\* a search that stores what it found in the found notes
findResultStored(store, related) ==
    [ store |-> [n \in DOMAIN store |->
                    IF hasLinkTo(related, n) THEN Append(store[n], related[1]) ELSE store[n]],
      success |-> TRUE, message |-> "", ret |-> related,
      writes |-> [i \in 1..Len(related) |-> related[i].noteId] ]

findResult(store, related) ==
    [ store |-> store, success |-> TRUE, message |-> "", ret |-> related,
      writes |-> <<>> ]

\* getLinkedNotes and findBacklinks: nothing is written
readResult(store, links) ==
    [ store |-> store, success |-> TRUE, message |-> "", ret |-> links,
      writes |-> <<>> ]

\* one call at a time: a call is made once the previous one has returned
LinkNotes(sp, sid, tp, tid) ==
    /\ lastOp.op = "none"
    /\ Respond("linkNotes", <<sp, sid, tp, tid>>,
               linkResult(linkNotes(linkedNotes, sp, sid, tp, tid)))

UnlinkNotes(sp, sid, tp, tid) ==
    /\ lastOp.op = "none"
    /\ Respond("unlinkNotes", <<sp, sid, tp, tid>>,
               linkResult(unlinkNotes(linkedNotes, sp, sid, tp, tid)))

\* a linkNotes call in which one of the two file writes throws; the tool
\* handler's catch turns the exception into an error response (the record
\* keeps which write it was after the call's arguments)
LinkNotesWriteFails(sp, sid, tp, tid, failAt) ==
    /\ lastOp.op = "none"
    /\ LET r == linkNotesWriteFails(linkedNotes, sp, sid, tp, tid, failAt)
       IN  /\ r.thrown
           /\ linkedNotes' = r.store
           /\ lastOp' = [ NoOp EXCEPT !.op = "linkNotes",
                                      !.args = <<sp, sid, tp, tid, failAt>>,
                                      !.success = FALSE, !.message = r.message,
                                      !.writes = r.writes, !.before = linkedNotes,
                                      !.thrown = TRUE ]
           /\ noteContent' = rewritten(noteContent, r.writes)
    /\ UNCHANGED <<projectFiles, scoreIn, scoreOut, keywordsIn, keywordsOut, calls, applied>>

\* the calls of updateNoteWithObsidianLinks that found their note, so far
applications == Len(applied["n1"]) + Len(applied["n2"]) + Len(applied["n3"])

\* update_obsidian_links: a note that is not found is answered with an error;
\* for a note that is found the file is written, whatever the content became
UpdateNoteWithObsidianLinks(p, id) ==
    /\ lastOp.op = "none"
    /\ LET r == updateNoteWithObsidianLinks(noteContent, linkedNotes, p, id)
       IN  IF ~r.found
           THEN /\ lastOp' = [ NoOp EXCEPT !.op = "updateNoteWithObsidianLinks",
                                           !.args = <<p, id>>, !.success = FALSE,
                                           !.message = "Note not found",
                                           !.before = linkedNotes ]
                /\ UNCHANGED <<noteContent, applied>>
           ELSE /\ applications < MaxApplications
                /\ noteContent' = r.contents
                /\ applied' = [applied EXCEPT ![id] =
                                  Append(@, [ before |-> noteContent[id],
                                              after |-> r.contents[id],
                                              links |-> linkedNotes[id] ])]
                /\ lastOp' = [ NoOp EXCEPT !.op = "updateNoteWithObsidianLinks",
                                           !.args = <<p, id>>, !.success = TRUE,
                                           !.writes = <<id>>, !.before = linkedNotes ]
    /\ UNCHANGED <<projectFiles, linkedNotes, scoreIn, scoreOut, keywordsIn, keywordsOut, calls>>

FindRelatedNotes(p, id, limit, minScore) ==
    /\ lastOp.op = "none"
    /\ Respond("findRelatedNotes", <<p, id, limit, minScore>>,
               findResult(linkedNotes, findRelatedNotes(linkedNotes, p, id, limit, minScore)))

AutoLinkRelatedNotes(p, id, limit, minScore) ==
    /\ lastOp.op = "none"
    /\ Respond("autoLinkRelatedNotes", <<p, id, limit, minScore>>,
               autoLinkResult(autoLinkRelatedNotes(linkedNotes, p, id, limit, minScore)))

GetLinkedNotes(p, id) ==
    /\ lastOp.op = "none"
    /\ Respond("getLinkedNotes", <<p, id>>,
               readResult(linkedNotes, getLinkedNotes(linkedNotes, p, id)))

FindBacklinks(p, id) ==
    /\ lastOp.op = "none"
    /\ Respond("findBacklinks", <<p, id>>,
               readResult(linkedNotes, findBacklinks(linkedNotes, p, id)))

GetNoteGraph(projectName) ==
    /\ lastOp.op = "none"
    /\ lastOp' = [ NoOp EXCEPT !.op = "getNoteGraph", !.args = <<projectName>>,
                               !.success = TRUE, !.before = linkedNotes,
                               !.graph = getNoteGraph(linkedNotes, projectName) ]
    /\ UNCHANGED <<projectFiles, linkedNotes, scoreIn, scoreOut, keywordsIn, keywordsOut,
                 noteContent, calls, applied>>

\* the caller has the returned value; the next call can be made
Return ==
    /\ lastOp.op # "none"
    /\ lastOp' = NoOp
    /\ UNCHANGED <<projectFiles, linkedNotes, scoreIn, scoreOut, keywordsIn, keywordsOut,
                 noteContent, calls, applied>>

Next ==
    \/ \E a \in LinkArgs : LinkNotes(a[1][1], a[1][2], a[2][1], a[2][2])
    \/ \E a \in LinkArgs : UnlinkNotes(a[1][1], a[1][2], a[2][1], a[2][2])
    \/ \E a \in FindArgs, limit \in LimitArgs, minScore \in MinScoreArgs :
          FindRelatedNotes(a[1], a[2], limit, minScore)
    \/ \E a \in AutoArgs, limit \in LimitArgs, minScore \in MinScoreArgs :
          AutoLinkRelatedNotes(a[1], a[2], limit, minScore)
    \/ \E a \in FindArgs : GetLinkedNotes(a[1], a[2])
    \/ \E a \in FindArgs : FindBacklinks(a[1], a[2])
    \/ \E projectName \in GraphArgs : GetNoteGraph(projectName)
    \/ Return

Spec == Init /\ [][Next]_vars

\* The notes as Init has them, or with a body that holds a section of links
\* written by hand; no links yet, or the links of a first autoLinkRelatedNotes.
ObsidianInit ==
    /\ projectFiles \in {TeamFiles, SoloFiles}
    /\ noteContent \in { [n \in NoteIds |-> noteFiles[n].content],
                          [n \in NoteIds |-> IF n = "n3" THEN newline(TextBudgetLinked)
                                                        ELSE noteFiles[n].content] }
    /\ linkedNotes \in
          { [n \in NoteIds |-> <<>>],
            autoLinkRelatedNotes([n \in NoteIds |-> <<>>], "work", "n1", MaxLimit, 20).store }
    /\ lastOp = NoOp
    /\ scoreIn = <<>>
    /\ scoreOut = [called |-> FALSE, ab |-> 0, ba |-> 0]
    /\ keywordsIn = <<>>
    /\ keywordsOut = [called |-> FALSE, keywords |-> {}]
    /\ calls = [p \in Procs |-> IdleCall]
    /\ applied = [n \in NoteIds |-> <<>>]

\* the links made while the bodies are rewritten: from n1 and to n1
ObsidianLinkArgs ==
    { <<<<"work", "n1">>, <<"work", "n2">>>>, <<<<"home", "n3">>, <<"work", "n1">>>> }
\* the notes whose bodies are rewritten, and a note that is not there
ObsidianArgs == {<<"work", "n1">>, <<"home", "n3">>, <<"work", "n9">>}

\* Linking, unlinking and writing the links into the bodies.
ObsidianNext ==
    \/ \E a \in ObsidianLinkArgs : LinkNotes(a[1][1], a[1][2], a[2][1], a[2][2])
    \/ \E a \in ObsidianLinkArgs : UnlinkNotes(a[1][1], a[1][2], a[2][1], a[2][2])
    \/ \E a \in ObsidianArgs : UpdateNoteWithObsidianLinks(a[1], a[2])
    \/ Return

ObsidianSpec == ObsidianInit /\ [][ObsidianNext]_vars

(***************************************************************************)
(* Two processes on the same files. The server and the command line tool   *)
(* are separate processes; each runs one call at a time, and a call is a   *)
(* sequence of file reads and file writes that the other process can get   *)
(* in between.                                                             *)
(***************************************************************************)
\* calls of linkNotes and unlinkNotes on two notes, n1 among them
RaceLinkArgs ==
    { <<s, t>> \in NoteArgs \X NoteArgs : s # t /\ (s[2] = "n1" \/ t[2] = "n1") }
\* calls of autoLinkRelatedNotes
RaceAutoArgs == {<<"work", "n1">>, <<"work", "n2">>}

\* the calls started so far
startedCalls == calls["p1"].started + calls["p2"].started

\* a write that keeps what the file has got since the writer read it
writeLinksMerged(store, read, w) ==
    LET isNew(e) == ~hasLinkTo(read[w.note], e.noteId) /\ ~hasLinkTo(w.links, e.noteId)
    IN  [store EXCEPT ![w.note] = w.links \o SelectSeq(store[w.note], isNew)]

\* updateNote of a call that read `read`: the list the call made replaces the
\* list of the file, whatever the file holds by now
writeLinks(store, read, w) == [store EXCEPT ![w.note] = w.links]

\* the writes a call makes, in their order, from the result of the call on the
\* lists it read
pendingWrites(r) ==
    [i \in 1..Len(r.writes) |-> [note |-> r.writes[i], links |-> r.store[r.writes[i]]]]

\* the call of process p once it has read all it reads: with nothing to write
\* it is over, otherwise its writes are ahead
afterReads(p, op, args, read, r, started) ==
    [ IdleCall EXCEPT !.pc = IF r.writes = <<>> THEN "done" ELSE "write",
                      !.op = op, !.args = args, !.read = read,
                      !.pending = pendingWrites(r),
                      !.success = r.success, !.message = r.message,
                      !.started = started ]

\* linkNotes and unlinkNotes begin with getNote of the source
StartLinkOrUnlink(p, op, sp, sid, tp, tid) ==
    /\ calls[p].pc = "idle"
    /\ startedCalls < MaxCalls
    /\ calls' = [calls EXCEPT ![p] =
                    [ IdleCall EXCEPT !.pc = "readTarget", !.op = op,
                                      !.args = <<sp, sid, tp, tid>>,
                                      !.read = [@ EXCEPT ![sid] = linkedNotes[sid]],
                                      !.started = calls[p].started + 1 ]]
    /\ UNCHANGED <<projectFiles, linkedNotes, lastOp, scoreIn, scoreOut, keywordsIn,
                   keywordsOut, noteContent, applied>>

\* getNote of the target, and all that linkNotes or unlinkNotes does before
\* its first write, on the two lists as they were read
ReadTarget(p) ==
    /\ calls[p].pc = "readTarget"
    /\ LET a == calls[p].args
           read == [calls[p].read EXCEPT ![a[4]] = linkedNotes[a[4]]]
           r == IF calls[p].op = "linkNotes"
                THEN linkNotes(read, a[1], a[2], a[3], a[4])
                ELSE unlinkNotes(read, a[1], a[2], a[3], a[4])
       IN  calls' = [calls EXCEPT ![p] =
                        afterReads(p, calls[p].op, a, read, r, calls[p].started)]
    /\ UNCHANGED <<projectFiles, linkedNotes, lastOp, scoreIn, scoreOut, keywordsIn,
                   keywordsOut, noteContent, applied>>

\* autoLinkRelatedNotes up to its write: findRelatedNotes scores the notes by
\* what does not change here, and getNote reads the list of the note
StartAuto(p, projectName, noteId) ==
    /\ calls[p].pc = "idle"
    /\ startedCalls < MaxCalls
    /\ LET read == [IdleCall.read EXCEPT ![noteId] = linkedNotes[noteId]]
           r == autoLinkResult(autoLinkRelatedNotes(read, projectName, noteId, MaxLimit, 20))
       IN  calls' = [calls EXCEPT ![p] =
                        afterReads(p, "autoLinkRelatedNotes", <<projectName, noteId>>, read, r,
                                   calls[p].started + 1)]
    /\ UNCHANGED <<projectFiles, linkedNotes, lastOp, scoreIn, scoreOut, keywordsIn,
                   keywordsOut, noteContent, applied>>

\* the writes of the other processes to a note are no longer its latest
notLatest(wrote, note) ==
    [i \in 1..Len(wrote) |->
        IF wrote[i].note = note THEN [wrote[i] EXCEPT !.latest = FALSE] ELSE wrote[i]]

\* the next updateNote of the call of process p
Write(p) ==
    /\ calls[p].pc = "write"
    /\ LET w == Head(calls[p].pending)
       IN  /\ linkedNotes' = writeLinks(linkedNotes, calls[p].read, w)
           /\ calls' = [q \in Procs |->
                 IF q = p
                 THEN [ calls[p] EXCEPT
                          !.pc = IF Len(calls[p].pending) = 1 THEN "done" ELSE "write",
                          !.pending = Tail(@),
                          !.wrote = Append(notLatest(@, w.note),
                                           [ note |-> w.note, links |-> w.links,
                                             found |-> linkedNotes[w.note],
                                             latest |-> TRUE ]) ]
                 ELSE [ calls[q] EXCEPT !.wrote = notLatest(@, w.note) ]]
    /\ UNCHANGED <<projectFiles, lastOp, scoreIn, scoreOut, keywordsIn, keywordsOut,
                   noteContent, applied>>

\* the call returns; the next call of the process starts from nothing
Finish(p) ==
    /\ calls[p].pc = "done"
    /\ calls' = [calls EXCEPT ![p] = [IdleCall EXCEPT !.started = calls[p].started]]
    /\ UNCHANGED <<projectFiles, linkedNotes, lastOp, scoreIn, scoreOut, keywordsIn,
                   keywordsOut, noteContent, applied>>

RaceNext ==
    \/ \E p \in Procs, a \in RaceLinkArgs :
          StartLinkOrUnlink(p, "linkNotes", a[1][1], a[1][2], a[2][1], a[2][2])
    \/ \E p \in Procs, a \in RaceLinkArgs :
          StartLinkOrUnlink(p, "unlinkNotes", a[1][1], a[1][2], a[2][1], a[2][2])
    \/ \E p \in Procs, a \in RaceAutoArgs : StartAuto(p, a[1], a[2])
    \/ \E p \in Procs : ReadTarget(p)
    \/ \E p \in Procs : Write(p)
    \/ \E p \in Procs : Finish(p)

RaceSpec == Init /\ [][RaceNext]_vars

\* the writes of linkNotes, the first or the second
FailAts == {1, 2}

\* Linking and unlinking on a disk whose writes can fail.
FaultNext ==
    \/ \E a \in LinkArgs : LinkNotes(a[1][1], a[1][2], a[2][1], a[2][2])
    \/ \E a \in LinkArgs : UnlinkNotes(a[1][1], a[1][2], a[2][1], a[2][2])
    \/ \E a \in LinkArgs, failAt \in FailAts :
          LinkNotesWriteFails(a[1][1], a[1][2], a[2][1], a[2][2], failAt)
    \/ Return

FaultSpec == Init /\ [][FaultNext]_vars

(***************************************************************************)
(* Properties of the link store.                                           *)
(***************************************************************************)
\* links holds an entry of the type for the note
hasTypedLinkTo(links, noteId, linkType) ==
    \E i \in 1..Len(links) : links[i].noteId = noteId /\ links[i].linkType = linkType

\* the last call was op, and it has not returned yet
Called(op) == lastOp.op = op

\* C1: in every state reached by linkNotes, unlinkNotes and autoLinkRelatedNotes
\* calls, a note A whose linkedNotes holds a manual entry for B has B's
\* linkedNotes holding a backlink entry for A.
C1_ManualHasBacklink ==
    \A a \in NoteIds, b \in NoteIds :
        hasTypedLinkTo(linkedNotes[a], b, "manual")
            => hasTypedLinkTo(linkedNotes[b], a, "backlink")

\* an unlink has just run while another manual link, made over a related entry,
\* stands with its backlink
C1_Witness ==
    /\ Called("unlinkNotes") /\ lastOp.success
    /\ lastOp.before # linkedNotes
    /\ \E a \in NoteIds, b \in NoteIds :
          /\ a # b
          /\ hasTypedLinkTo(linkedNotes[a], b, "manual")
          /\ hasTypedLinkTo(linkedNotes[b], a, "backlink")
          /\ hasTypedLinkTo(linkedNotes[b], a, "related")

\* C2: when linkNotes(A, B) returns success, getLinkedNotes(A) holds a manual
\* entry for B and getLinkedNotes(B) holds a backlink entry for A.
C2_LinkStoresBothEntries ==
    (Called("linkNotes") /\ lastOp.success)
        => /\ hasTypedLinkTo(getLinkedNotes(linkedNotes, lastOp.args[1], lastOp.args[2]),
                             lastOp.args[4], "manual")
           /\ hasTypedLinkTo(getLinkedNotes(linkedNotes, lastOp.args[3], lastOp.args[4]),
                             lastOp.args[2], "backlink")

\* C3: linkNotes(A, B) fails whenever A's linkedNotes already holds an entry of
\* any type for B, and then no stored link list changes; a second linkNotes(A, B)
\* right after a successful one fails.
C3_AlreadyLinkedFails ==
    /\ (Called("linkNotes")
        /\ hasLinkTo(getLinkedNotes(lastOp.before, lastOp.args[1], lastOp.args[2]),
                     lastOp.args[4]))
           => (~lastOp.success /\ lastOp.writes = <<>> /\ linkedNotes = lastOp.before)
    /\ (Called("linkNotes") /\ lastOp.success)
           => LET again == linkNotes(linkedNotes, lastOp.args[1], lastOp.args[2],
                                     lastOp.args[3], lastOp.args[4])
              IN  ~again.success /\ again.store = linkedNotes

\* linkNotes(A, B) has failed on a related entry for B, made by
\* autoLinkRelatedNotes, in A
C3_Witness ==
    /\ Called("linkNotes") /\ ~lastOp.success
    /\ lastOp.message = "Notes are already linked"
    /\ hasTypedLinkTo(linkedNotes[lastOp.args[2]], lastOp.args[4], "related")
    /\ ~hasTypedLinkTo(linkedNotes[lastOp.args[2]], lastOp.args[4], "manual")

\* C4: when the source or the target note does not exist, linkNotes and
\* unlinkNotes return a failure and write no note: every link list is as before.
C4_MissingNoteFails ==
    ((Called("linkNotes") \/ Called("unlinkNotes"))
     /\ (getNote(lastOp.before, lastOp.args[1], lastOp.args[2]) = <<>>
         \/ getNote(lastOp.before, lastOp.args[3], lastOp.args[4]) = <<>>))
        => /\ ~lastOp.success
           /\ lastOp.message = "One or both notes not found"
           /\ lastOp.writes = <<>>
           /\ linkedNotes = lastOp.before

\* a call has failed on a missing target while its source exists and holds an
\* entry for the target's id
C4_Witness ==
    /\ Called("linkNotes") \/ Called("unlinkNotes")
    /\ ~lastOp.success
    /\ getNote(linkedNotes, lastOp.args[1], lastOp.args[2]) # <<>>
    /\ getNote(linkedNotes, lastOp.args[3], lastOp.args[4]) = <<>>
    /\ hasLinkTo(linkedNotes[lastOp.args[2]], lastOp.args[4])

\* C5: after a successful unlinkNotes(A, B), A's linkedNotes has no entry for B
\* and B's has none for A, whatever the types of the removed entries.
C5_UnlinkRemovesBothSides ==
    (Called("unlinkNotes") /\ lastOp.success)
        => /\ ~hasLinkTo(linkedNotes[lastOp.args[2]], lastOp.args[4])
           /\ ~hasLinkTo(linkedNotes[lastOp.args[4]], lastOp.args[2])

\* an unlink has removed a related and a backlink entry from one side and a
\* manual entry from the other
C5_Witness ==
    /\ Called("unlinkNotes") /\ lastOp.success
    /\ lastOp.args[2] # lastOp.args[4]
    /\ hasTypedLinkTo(lastOp.before[lastOp.args[2]], lastOp.args[4], "related")
    /\ hasTypedLinkTo(lastOp.before[lastOp.args[2]], lastOp.args[4], "backlink")
    /\ hasTypedLinkTo(lastOp.before[lastOp.args[4]], lastOp.args[2], "manual")

\* C6: autoLinkRelatedNotes called again with the same arguments returns the
\* empty sequence and leaves the source's linkedNotes as the first call left it.
C6_AutoLinkIdempotent ==
    Called("autoLinkRelatedNotes")
        => LET again == autoLinkRelatedNotes(linkedNotes, lastOp.args[1], lastOp.args[2],
                                             lastOp.args[3], lastOp.args[4])
           IN  again.ret = <<>> /\ again.store = linkedNotes /\ again.writes = <<>>

\* a call has added two related entries to a note that held an entry already
C6_Witness ==
    /\ Called("autoLinkRelatedNotes")
    /\ Len(lastOp.ret) >= 2
    /\ lastOp.before[lastOp.args[2]] # <<>>

\* the scores of the returned links never increase
scoresDescend(links) ==
    \A i \in 1..Len(links), j \in 1..Len(links) :
        i < j => links[i].relevanceScore >= links[j].relevanceScore

C8_SourceNeverReturned ==
    Called("findRelatedNotes") => ~hasLinkTo(lastOp.ret, lastOp.args[2])

\* C12: autoLinkRelatedNotes(P, N, ...) modifies no note other than N: what it
\* adds are related entries at the end of N's linkedNotes, and no other note
\* gets a backlink or any other entry.
C12_AutoLinkWritesSourceOnly ==
    Called("autoLinkRelatedNotes")
        => /\ \A n \in NoteIds :
                  n # lastOp.args[2] => linkedNotes[n] = lastOp.before[n]
           /\ \A i \in 1..Len(lastOp.writes) : lastOp.writes[i] = lastOp.args[2]
           /\ \A n \in NoteIds :
                  n = lastOp.args[2]
                      => /\ Len(linkedNotes[n]) >= Len(lastOp.before[n])
                         /\ SubSeq(linkedNotes[n], 1, Len(lastOp.before[n])) = lastOp.before[n]
                         /\ \A i \in (Len(lastOp.before[n]) + 1)..Len(linkedNotes[n]) :
                                linkedNotes[n][i].linkType = "related"

\* a call has added related entries for two other notes, one of them a note
\* that holds a related entry for the source, the other a note without links
C12_Witness ==
    /\ Called("autoLinkRelatedNotes")
    /\ Len(lastOp.ret) >= 2
    /\ \E i \in 1..Len(lastOp.ret) :
          /\ lastOp.ret[i].noteId # lastOp.args[2]
          /\ hasTypedLinkTo(linkedNotes[lastOp.ret[i].noteId], lastOp.args[2], "related")
    /\ \E i \in 1..Len(lastOp.ret) :
          /\ lastOp.ret[i].noteId # lastOp.args[2]
          /\ linkedNotes[lastOp.ret[i].noteId] = <<>>

\* the pool of the Finder holds the note and no other
poolHoldsOnly(store, noteId) ==
    /\ allNotesFrom(store, 1) # <<>>
    /\ \A i \in 1..Len(allNotesFrom(store, 1)) : allNotesFrom(store, 1)[i].id = noteId

\* C15: findRelatedNotes, getLinkedNotes, autoLinkRelatedNotes and findBacklinks
\* return the empty sequence when the note or its project does not exist,
\* findRelatedNotes returns the empty sequence when the pool holds no other
\* note than the source, and no note is written in these cases.
C15_QueriesReturnEmpty ==
    /\ ((Called("findRelatedNotes") \/ Called("getLinkedNotes")
          \/ Called("autoLinkRelatedNotes") \/ Called("findBacklinks"))
         /\ getNote(lastOp.before, lastOp.args[1], lastOp.args[2]) = <<>>)
            => (lastOp.ret = <<>> /\ lastOp.writes = <<>> /\ linkedNotes = lastOp.before)
    /\ (Called("findRelatedNotes")
         /\ getNote(lastOp.before, lastOp.args[1], lastOp.args[2]) # <<>>
         /\ poolHoldsOnly(lastOp.before, lastOp.args[2]))
            => (lastOp.ret = <<>> /\ lastOp.writes = <<>> /\ linkedNotes = lastOp.before)

\* the number of related entries in a link list
relatedEntries(links) ==
    Cardinality({ i \in 1..Len(links) : links[i].linkType = "related" })

\* C16: findRelatedNotes is read-only: for every input every note's link list is
\* after the call what it was before, and nothing is written; a related entry
\* comes into a stored list only by autoLinkRelatedNotes.
C16_FindIsReadOnly ==
    /\ Called("findRelatedNotes")
           => (linkedNotes = lastOp.before /\ lastOp.writes = <<>>)
    /\ (lastOp.op # "none"
         /\ \E n \in NoteIds : relatedEntries(linkedNotes[n]) > relatedEntries(lastOp.before[n]))
           => Called("autoLinkRelatedNotes")

\* a search has returned two links for a note that holds a manual entry for one
\* of them and no related entry
C16_Witness ==
    /\ Called("findRelatedNotes")
    /\ Len(lastOp.ret) >= 2
    /\ lastOp.args[2] \in NoteIds
    /\ relatedEntries(linkedNotes[lastOp.args[2]]) = 0
    /\ \E i \in 1..Len(lastOp.ret) :
          hasTypedLinkTo(linkedNotes[lastOp.args[2]], lastOp.ret[i].noteId, "manual")

\* C17: unlinkNotes(A, B) succeeds whenever both notes exist, also when neither
\* or only one of them holds an entry for the other; it ends with neither
\* referencing the other, and applying it again succeeds and leaves the link
\* lists as the first application left them.
C17_UnlinkHealsOneSided ==
    (Called("unlinkNotes")
     /\ getNote(lastOp.before, lastOp.args[1], lastOp.args[2]) # <<>>
     /\ getNote(lastOp.before, lastOp.args[3], lastOp.args[4]) # <<>>)
        => /\ lastOp.success
           /\ ~hasLinkTo(linkedNotes[lastOp.args[2]], lastOp.args[4])
           /\ ~hasLinkTo(linkedNotes[lastOp.args[4]], lastOp.args[2])
           /\ LET again == unlinkNotes(linkedNotes, lastOp.args[1], lastOp.args[2],
                                       lastOp.args[3], lastOp.args[4])
              IN  again.success /\ again.store = linkedNotes

\* an unlink has removed the entry of a one-sided link from its target: the
\* source held no entry for the target
C17_Witness ==
    /\ Called("unlinkNotes") /\ lastOp.success
    /\ lastOp.args[2] # lastOp.args[4]
    /\ ~hasLinkTo(lastOp.before[lastOp.args[2]], lastOp.args[4])
    /\ hasLinkTo(lastOp.before[lastOp.args[4]], lastOp.args[2])
    /\ lastOp.before[lastOp.args[2]] # <<>>

\* the places of the candidates that are not skipped: no entry for the
\* candidate's id in the list, none among the candidates before it
newPlaces(related, links) ==
    { i \in 1..Len(related) :
        /\ ~hasLinkTo(links, related[i].noteId)
        /\ \A j \in 1..(i - 1) : related[j].noteId # related[i].noteId }

\* the candidates at the places, in the order of the places
candidatesAt(related, places) ==
    [ k \in 1..Cardinality(places) |->
        related[CHOOSE i \in places : Cardinality({ j \in places : j < i }) = k - 1] ]

\* C18: autoLinkRelatedNotes returns exactly the links it appended: a candidate
\* of the Finder is skipped iff the source's linkedNotes (entries appended
\* earlier in the call included) holds an entry of any type for its id; the
\* other candidates are appended at the end of the list in Finder rank order,
\* the entries that were there keep their places, and the returned sequence is
\* the appended one.
C18_AutoLinkReturnsAppended ==
    (Called("autoLinkRelatedNotes")
     /\ getNote(lastOp.before, lastOp.args[1], lastOp.args[2]) # <<>>)
        => LET related == findRelatedNotes(lastOp.before, lastOp.args[1], lastOp.args[2],
                                           lastOp.args[3], lastOp.args[4])
               old == lastOp.before[lastOp.args[2]]
           IN  /\ lastOp.ret = candidatesAt(related, newPlaces(related, old))
               /\ linkedNotes[lastOp.args[2]] = old \o lastOp.ret

\* a call has appended two links after an entry that was there, and skipped a
\* candidate that ranks between the two
C18_Witness ==
    /\ Called("autoLinkRelatedNotes")
    /\ Len(lastOp.ret) = 2
    /\ lastOp.before[lastOp.args[2]] # <<>>
    /\ LET related == findRelatedNotes(lastOp.before, lastOp.args[1], lastOp.args[2],
                                       lastOp.args[3], lastOp.args[4])
       IN  /\ Len(related) = 3
           /\ lastOp.ret = <<related[1], related[3]>>

\* C19: autoLinkRelatedNotes writes the source note at most once per call, and
\* only when a link was added; when the Finder returns nothing or every
\* candidate is already linked, nothing is written and the stored source note
\* is as before.
C19_AutoLinkWritesAtMostOnce ==
    Called("autoLinkRelatedNotes")
        => /\ Len(lastOp.writes) <= 1
           /\ lastOp.writes # <<>> => (lastOp.writes = <<lastOp.args[2]>> /\ lastOp.ret # <<>>)
           /\ lastOp.ret = <<>> => (lastOp.writes = <<>> /\ linkedNotes = lastOp.before)

\* a call has found two candidates, both already linked, and has written nothing
C19_Witness ==
    /\ Called("autoLinkRelatedNotes")
    /\ lastOp.ret = <<>> /\ lastOp.writes = <<>>
    /\ Len(findRelatedNotes(lastOp.before, lastOp.args[1], lastOp.args[2],
                            lastOp.args[3], lastOp.args[4])) >= 2

\* the place of the note in the pool of the Finder
poolPlace(store, noteId) ==
    CHOOSE i \in 1..Len(allNotesFrom(store, 1)) : allNotesFrom(store, 1)[i].id = noteId

\* links is the beginning of all
isPrefix(links, all) ==
    Len(links) <= Len(all) /\ links = SubSeq(all, 1, Len(links))

\* C22: in the result of findRelatedNotes candidates of equal score stand in the
\* order of the pool (projects in configuration order, the notes of a project
\* in listNotes order), and the cut to `limit` keeps the first ones of that
\* order: the result is the beginning of the result without a cut.
C22_TiesInPoolOrder ==
    (Called("findRelatedNotes")
     /\ getNote(lastOp.before, lastOp.args[1], lastOp.args[2]) # <<>>)
        => /\ \A i \in 1..Len(lastOp.ret), j \in 1..Len(lastOp.ret) :
                  (i < j /\ lastOp.ret[i].relevanceScore = lastOp.ret[j].relevanceScore)
                      => poolPlace(lastOp.before, lastOp.ret[i].noteId)
                            < poolPlace(lastOp.before, lastOp.ret[j].noteId)
           /\ isPrefix(lastOp.ret,
                       findRelatedNotes(lastOp.before, lastOp.args[1], lastOp.args[2],
                                        Len(allNotesFrom(lastOp.before, 1)), lastOp.args[4]))

\* a search with limit 1 has returned the first of two candidates of equal score
C22_Witness ==
    /\ Called("findRelatedNotes")
    /\ lastOp.args[3] = 1
    /\ Len(lastOp.ret) = 1
    /\ LET all == findRelatedNotes(lastOp.before, lastOp.args[1], lastOp.args[2],
                                   Len(allNotesFrom(lastOp.before, 1)), lastOp.args[4])
       IN  /\ Len(all) >= 2
           /\ all[1].relevanceScore = all[2].relevanceScore
           /\ lastOp.ret[1].noteId = all[1].noteId

\* C27: in every state reached by linkNotes, unlinkNotes and
\* autoLinkRelatedNotes calls from empty link lists, no note's linkedNotes holds
\* two entries for the same note id.
C27_NoTwoEntriesForOneNote ==
    \A n \in NoteIds :
        \A i \in 1..Len(linkedNotes[n]), j \in 1..Len(linkedNotes[n]) :
            i # j => linkedNotes[n][i].noteId # linkedNotes[n][j].noteId

\* C28: in every state reached by linkNotes, unlinkNotes and
\* autoLinkRelatedNotes calls from empty link lists, no note's linkedNotes holds
\* an entry for the note itself.
C28_NoEntryForTheNoteItself ==
    \A n \in NoteIds : ~hasLinkTo(linkedNotes[n], n)

\* C29: unlinkNotes(A, B) and linkNotes(A, B) change nothing but the entries
\* between A and B: in A and in B the entries for third notes are kept, in
\* their order, and the link list of every other note is as before.
C29_OnlyEntriesBetweenTheTwoChange ==
    ((Called("linkNotes") \/ Called("unlinkNotes"))
     /\ lastOp.args[2] \in NoteIds /\ lastOp.args[4] \in NoteIds)
        => /\ \A n \in NoteIds :
                  (n # lastOp.args[2] /\ n # lastOp.args[4])
                      => linkedNotes[n] = lastOp.before[n]
           /\ withoutLinksTo(linkedNotes[lastOp.args[2]], lastOp.args[4])
                  = withoutLinksTo(lastOp.before[lastOp.args[2]], lastOp.args[4])
           /\ withoutLinksTo(linkedNotes[lastOp.args[4]], lastOp.args[2])
                  = withoutLinksTo(lastOp.before[lastOp.args[4]], lastOp.args[2])

\* a link has been made between two notes that both hold an entry for a third
\* one, which holds entries itself
C29_Witness ==
    /\ Called("linkNotes") /\ lastOp.success
    /\ lastOp.args[2] # lastOp.args[4]
    /\ \E n \in NoteIds :
          /\ n # lastOp.args[2] /\ n # lastOp.args[4]
          /\ hasLinkTo(linkedNotes[lastOp.args[2]], n)
          /\ hasLinkTo(linkedNotes[lastOp.args[4]], n)
          /\ linkedNotes[n] # <<>>

\* the backlink entries a list holds for a note
backlinkEntries(links, noteId) ==
    LET isBacklinkTo(e) == e.noteId = noteId /\ e.linkType = "backlink"
    IN  SelectSeq(links, isBacklinkTo)

\* C23: linkNotes writes the source and then the target, and takes nothing
\* back. A failure of the first write leaves the store as it was. A failure of
\* the second write leaves the source with its new manual entry for the target
\* while the target has gained no backlink entry for the source and every
\* other list is as before; the caller gets an error, and calling linkNotes
\* for the same pair again answers "Notes are already linked" and writes
\* nothing, so the missing backlink is not added.
C23_FailedSecondWriteLeavesHalfALink ==
    (Called("linkNotes") /\ lastOp.thrown)
        => LET sid == lastOp.args[2]
               tid == lastOp.args[4]
               retry == linkNotes(linkedNotes, lastOp.args[1], sid, lastOp.args[3], tid)
           IN  /\ ~lastOp.success
               /\ lastOp.args[5] = 1 =>
                     /\ lastOp.writes = <<>>
                     /\ linkedNotes = lastOp.before
               /\ lastOp.args[5] = 2 =>
                     /\ lastOp.writes = <<sid>>
                     /\ Len(linkedNotes[sid]) = Len(lastOp.before[sid]) + 1
                     /\ SubSeq(linkedNotes[sid], 1, Len(lastOp.before[sid]))
                            = lastOp.before[sid]
                     /\ linkedNotes[sid][Len(linkedNotes[sid])].noteId = tid
                     /\ linkedNotes[sid][Len(linkedNotes[sid])].linkType = "manual"
                     /\ \A n \in NoteIds : n # sid => linkedNotes[n] = lastOp.before[n]
                     /\ backlinkEntries(linkedNotes[tid], sid)
                            = backlinkEntries(lastOp.before[tid], sid)
                     /\ ~retry.success
                     /\ retry.message = "Notes are already linked"
                     /\ retry.store = linkedNotes

\* the second write of a link between two different notes has failed: the
\* source names the target, the target holds nothing for the source
C23_Witness ==
    /\ Called("linkNotes") /\ lastOp.thrown /\ lastOp.args[5] = 2
    /\ lastOp.args[2] # lastOp.args[4]
    /\ hasLinkTo(linkedNotes[lastOp.args[2]], lastOp.args[4])
    /\ ~hasLinkTo(linkedNotes[lastOp.args[4]], lastOp.args[2])
    /\ lastOp.before[lastOp.args[2]] # <<>>

\* does an application find a body without either heading
hasNoHeading(content) ==
    ~includes(content, HeadingRelated) /\ ~includes(content, HeadingLinked)

\* is `part` the beginning of `text`, and `text` longer
isProperPrefix(part, text) ==
    Len(part) < Len(text) /\ SubSeq(text, 1, Len(part)) = part

\* C25 as it reads: a second application leaves the content that the first one
\* left, whatever was linked between the two.
C25_TwiceIsOnce ==
    \A n \in NoteIds : \A k \in 1..(Len(applied[n]) - 1) :
        applied[n][k + 1].after = applied[n][k].after

\* C25: updateNoteWithObsidianLinks appends the section of links exactly when
\* the note has links and its content holds neither heading: the content then
\* grows at its end by a section with the "## Related Notes" heading and a
\* [[title]] for every link, and otherwise stays as it was. A second
\* application leaves the content of the first one whenever the first one
\* found a link or a heading, also when links were added between the two, and
\* whenever the second one finds no link; when the first one found neither
\* link nor heading and the second one finds a link, the second one appends
\* the section.
C25_SectionAppendedOnce ==
    \A n \in NoteIds : \A k \in 1..Len(applied[n]) :
        LET a == applied[n][k]
            appends == a.links # <<>> /\ hasNoHeading(a.before)
        IN  /\ appends =>
                  /\ isProperPrefix(a.before, a.after)
                  /\ includes(a.after, HeadingRelated)
                  /\ \A i \in 1..Len(a.links) :
                        includes(a.after,
                                 <<"[", "[">> \o a.links[i].noteTitle \o <<"]", "]">>)
            /\ ~appends => a.after = a.before
            /\ k < Len(applied[n]) =>
                  LET b == applied[n][k + 1]
                  IN  /\ b.before = a.after
                      /\ (a.links # <<>> \/ ~hasNoHeading(a.before) \/ b.links = <<>>)
                            => b.after = a.after
                      /\ (a.links = <<>> /\ hasNoHeading(a.before) /\ b.links # <<>>)
                            => isProperPrefix(a.after, b.after)

\* a note with links got its section, more links were added to it, and the
\* second application left the content alone
C25_Witness ==
    \E n \in NoteIds :
        /\ Len(applied[n]) = 2
        /\ applied[n][1].links # <<>>
        /\ hasNoHeading(applied[n][1].before)
        /\ Len(applied[n][2].links) > Len(applied[n][1].links)
        /\ applied[n][2].after = applied[n][1].after
        /\ Called("updateNoteWithObsidianLinks")

\* the other note of a linkNotes or unlinkNotes call
otherNoteOf(c, note) == IF note = c.args[2] THEN c.args[4] ELSE c.args[2]

\* is the list written the one the operation makes of the list the call read
madeFromRead(c, i) ==
    LET w == c.wrote[i]
        old == c.read[w.note]
    IN  IF c.op = "linkNotes"
        THEN /\ Len(w.links) = Len(old) + 1
             /\ isPrefix(old, w.links)
             /\ w.links[Len(w.links)].noteId = otherNoteOf(c, w.note)
             /\ w.links[Len(w.links)].linkType = (IF i = 1 THEN "manual" ELSE "backlink")
        ELSE IF c.op = "unlinkNotes"
        THEN w.links = withoutLinksTo(old, otherNoteOf(c, w.note))
        ELSE /\ Len(w.links) > Len(old)
             /\ isPrefix(old, w.links)
             /\ \A k \in (Len(old) + 1)..Len(w.links) : w.links[k].linkType = "related"

\* C24: a link operation reads the lists, makes the new lists and writes them
\* whole, with nothing that looks at the file again: every list a call writes
\* is made from the list the call read, whatever the file holds at the time of
\* the write; the file then holds the list of the latest writer; and a call
\* that has done its writes reports what it reports when it runs alone, also
\* when a write found another list than the call had read.
C24_LatestWriterWins ==
    \A p \in Procs :
        /\ \A i \in 1..Len(calls[p].wrote) :
              /\ madeFromRead(calls[p], i)
              /\ calls[p].wrote[i].latest
                    => linkedNotes[calls[p].wrote[i].note] = calls[p].wrote[i].links
        /\ (calls[p].pc = "done" /\ calls[p].wrote # <<>>)
              => /\ calls[p].success
                 /\ calls[p].message
                       = (IF calls[p].op = "linkNotes" THEN "Linked"
                          ELSE IF calls[p].op = "unlinkNotes" THEN "Notes unlinked"
                          ELSE "")

\* two calls of linkNotes from the same note have both read it before either
\* wrote, and both are over with success: the manual entry that the first
\* writer put in the file was there when the second wrote, and is gone
C24_Witness ==
    \E p \in Procs, q \in Procs :
        /\ p # q
        /\ calls[p].pc = "done" /\ calls[p].success /\ calls[p].op = "linkNotes"
        /\ calls[q].pc = "done" /\ calls[q].success /\ calls[q].op = "linkNotes"
        /\ \E i \in 1..Len(calls[p].wrote), j \in 1..Len(calls[q].wrote) :
              LET w == calls[p].wrote[i]
                  v == calls[q].wrote[j]
              IN  /\ w.note = v.note /\ w.latest /\ ~v.latest
                  /\ w.found = v.links
                  /\ \E k \in 1..Len(v.links) :
                        /\ v.links[k].linkType = "manual"
                        /\ ~hasLinkTo(calls[p].read[w.note], v.links[k].noteId)
                        /\ ~hasLinkTo(linkedNotes[w.note], v.links[k].noteId)

(***************************************************************************)
(* Properties of the graph.                                                *)
(***************************************************************************)
\* n choose 2
choose2(n) == (n * (n - 1)) \div 2

\* the two note ids an edge joins
endsOf(edge) == {edge.source, edge.target}

\* C11: for every note population reached through the link operations and every
\* optional project filter, the graph of getNoteGraph has at most (number of nodes
\* choose 2) edges, and no two edges join the same undirected pair of note ids.
C11_GraphEdgesBounded ==
    Called("getNoteGraph")
        => /\ Len(lastOp.graph.edges) <= choose2(Len(lastOp.graph.nodes))
           /\ \A i \in 1..Len(lastOp.graph.edges), j \in 1..Len(lastOp.graph.edges) :
                  i # j => endsOf(lastOp.graph.edges[i]) # endsOf(lastOp.graph.edges[j])

\* the note is a node of the graph
isNode(graph, id) == \E i \in 1..Len(graph.nodes) : graph.nodes[i].id = id

\* of two notes, one of them a node, the one that is visited first
firstVisited(graph, a, b) ==
    IF ~isNode(graph, b) THEN a
    ELSE IF ~isNode(graph, a) THEN b
    ELSE IF (CHOOSE i \in 1..Len(graph.nodes) : graph.nodes[i].id = a)
               < (CHOOSE i \in 1..Len(graph.nodes) : graph.nodes[i].id = b)
         THEN a ELSE b

\* the type of the first entry for the note in a link list that holds one
firstLinkType(links, id) ==
    links[CHOOSE i \in 1..Len(links) :
             links[i].noteId = id /\ \A j \in 1..(i - 1) : links[j].noteId # id].linkType

\* the edges of the graph that join the two notes
edgesBetween(graph, a, b) ==
    { i \in 1..Len(graph.edges) : endsOf(graph.edges[i]) = {a, b} }

\* A holds a manual entry for B and B the backlink, and the graph visits one of them
isLinkedPairIn(graph, a, b) ==
    /\ a # b
    /\ hasTypedLinkTo(linkedNotes[a], b, "manual")
    /\ hasTypedLinkTo(linkedNotes[b], a, "backlink")
    /\ isNode(graph, a) \/ isNode(graph, b)

\* C20 as stated: a manual link A->B together with its backlink B->A yields
\* exactly one edge between A and B, and the type of that edge is the type of
\* whichever of the two entries is visited first: manual when A is visited
\* before B, backlink when B is visited before A.
C20_EdgeTypeOfFirstOfTheTwo ==
    Called("getNoteGraph")
        => \A a \in NoteIds, b \in NoteIds :
              isLinkedPairIn(lastOp.graph, a, b)
                  => /\ Cardinality(edgesBetween(lastOp.graph, a, b)) = 1
                     /\ \A i \in edgesBetween(lastOp.graph, a, b) :
                            lastOp.graph.edges[i].type =
                                (IF firstVisited(lastOp.graph, a, b) = a
                                 THEN "manual" ELSE "backlink")

\* C20 amended: a manual link A->B together with its backlink B->A yields
\* exactly one edge between A and B in a graph that visits A or B, and the type
\* of that edge is the type of the first link entry between the two that is
\* visited, iterating projects in configuration order, notes in list order and
\* entries in array order: a related entry that stands before the backlink in
\* B's list gives the edge the type related when B is visited first.
C20_EdgeTypeOfFirstVisitedEntry ==
    Called("getNoteGraph")
        => \A a \in NoteIds, b \in NoteIds :
              isLinkedPairIn(lastOp.graph, a, b)
                  => /\ Cardinality(edgesBetween(lastOp.graph, a, b)) = 1
                     /\ \A i \in edgesBetween(lastOp.graph, a, b) :
                            LET first == firstVisited(lastOp.graph, a, b)
                                other == IF first = a THEN b ELSE a
                            IN  /\ lastOp.graph.edges[i].source = first
                                /\ lastOp.graph.edges[i].target = other
                                /\ lastOp.graph.edges[i].type
                                       = firstLinkType(linkedNotes[first], other)

\* a graph holds the edge of a pair whose manual entry was visited first, of
\* type manual, and the edge of a pair whose backlink was visited first, of type
\* backlink
C20_Witness ==
    /\ Called("getNoteGraph")
    /\ \E a \in NoteIds, b \in NoteIds :
          /\ isLinkedPairIn(lastOp.graph, a, b)
          /\ firstVisited(lastOp.graph, a, b) = a
          /\ \E i \in edgesBetween(lastOp.graph, a, b) : lastOp.graph.edges[i].type = "manual"
    /\ \E a \in NoteIds, b \in NoteIds :
          /\ isLinkedPairIn(lastOp.graph, a, b)
          /\ firstVisited(lastOp.graph, a, b) = b
          /\ isNode(lastOp.graph, a)
          /\ \E i \in edgesBetween(lastOp.graph, a, b) : lastOp.graph.edges[i].type = "backlink"

\* the notes of the projects from i on, as nodes: project by project, each
\* project's notes in listNotes order
RECURSIVE nodesOfProjects(_, _)
nodesOfProjects(projects, i) ==
    IF i > Len(projects) THEN <<>>
    ELSE [ k \in 1..Len(listNotes(linkedNotes, projects[i])) |->
             [ id |-> listNotes(linkedNotes, projects[i])[k].id,
               title |-> listNotes(linkedNotes, projects[i])[k].title,
               project |-> projects[i] ] ]
         \o nodesOfProjects(projects, i + 1)

\* the configured projects a graph call selects
selectedProjects(projectName) ==
    IF projectName = "" THEN configProjects
    ELSE IF projectName \in Range(configProjects) THEN <<projectName>> ELSE <<>>

\* C21: getNoteGraph emits exactly one node {id, title, project} per note of the
\* selected projects, the notes without links included; the nodes do not depend
\* on the link entries.
C21_GraphNodesAreTheNotes ==
    Called("getNoteGraph")
        => /\ lastOp.graph.nodes = nodesOfProjects(selectedProjects(lastOp.args[1]), 1)
           /\ lastOp.graph.nodes
                  = getNoteGraph([n \in NoteIds |-> <<>>], lastOp.args[1]).nodes

\* a graph of all projects holds three nodes, one of a note without links, and
\* an edge
C21_Witness ==
    /\ Called("getNoteGraph")
    /\ lastOp.args[1] = ""
    /\ Len(lastOp.graph.nodes) = 3
    /\ Len(lastOp.graph.edges) >= 1
    /\ \E i \in 1..Len(lastOp.graph.nodes) : linkedNotes[lastOp.graph.nodes[i].id] = <<>>

\* C30: in the graph of getNoteGraph without a project filter, on a population
\* reached by linkNotes, unlinkNotes and autoLinkRelatedNotes from empty link
\* lists, both ends of every edge are ids of nodes; with a project filter the
\* source of every edge is a node.
C30_EdgeEndsAreNodes ==
    Called("getNoteGraph")
        => \A i \in 1..Len(lastOp.graph.edges) :
              /\ isNode(lastOp.graph, lastOp.graph.edges[i].source)
              /\ lastOp.args[1] = "" => isNode(lastOp.graph, lastOp.graph.edges[i].target)

\* a graph of all projects holds three edges, one of them between notes of two
\* projects
C30_Witness ==
    /\ Called("getNoteGraph")
    /\ lastOp.args[1] = ""
    /\ \E i \in 1..Len(lastOp.graph.edges) :
          /\ lastOp.graph.edges[i].source \in {"n1", "n2"}
          /\ lastOp.graph.edges[i].target = "n3"
    /\ Len(lastOp.graph.edges) >= 3

(***************************************************************************)
(* The scorer on notes drawn from bounded sets.                            *)
(***************************************************************************)
ScoreTags == {"sprint", "retro"}
TagSeqs == UNION { [1..n -> ScoreTags] : n \in 0..MaxTags }
ScoreActionPoints ==
    { <<>>,
      <<[assignee |-> "ann"]>>,
      <<[assignee |-> ""], [assignee |-> "bob"], [assignee |-> "ann"]>> }
ScoreDates == {0, 3, 11}

ScoreNotesA ==
    [ id : {"n1"}, title : {TitlePlan}, date : {3}, project : {"work"},
      content : {TextSprintPlan, TextBudget, TextDemo}, tags : TagSeqs,
      actionPoints : ScoreActionPoints ]

ScoreNotesB ==
    [ id : {"n1", "n2"}, title : {TitlePlan}, date : ScoreDates, project : {"work", "home"},
      content : {TextSprintPlan, TextBacklog, TextHiring}, tags : TagSeqs,
      actionPoints : ScoreActionPoints ]

ScoreInit ==
    /\ projectFiles = TeamFiles
    /\ linkedNotes = [n \in NoteIds |-> <<>>]
    /\ lastOp = NoOp
    /\ scoreIn \in ScoreNotesA \X ScoreNotesB
    /\ scoreOut = [called |-> FALSE, ab |-> 0, ba |-> 0]
    /\ keywordsIn = <<>>
    /\ keywordsOut = [called |-> FALSE, keywords |-> {}]
    /\ noteContent = [n \in NoteIds |-> noteFiles[n].content]
    /\ calls = [p \in Procs |-> IdleCall]
    /\ applied = [n \in NoteIds |-> <<>>]

\* calculateSimilarity(a, b) and calculateSimilarity(b, a)
Score ==
    /\ ~scoreOut.called
    /\ scoreOut' = [ called |-> TRUE,
                     ab |-> calculateSimilarity(scoreIn[1], scoreIn[2]),
                     ba |-> calculateSimilarity(scoreIn[2], scoreIn[1]) ]
    /\ UNCHANGED <<projectFiles, linkedNotes, lastOp, scoreIn, keywordsIn, keywordsOut,
                 noteContent, calls, applied>>

ScoreNext == Score

ScoreSpec == ScoreInit /\ [][ScoreNext]_vars

(***************************************************************************)
(* The keyword extractor on texts put together from pieces.                *)
(***************************************************************************)
TextMonday == <<"T", "h", "e", " ", "t", "e", "a", "m", " ", "w", "i", "l", "l", " ", "r", "e", "v", "i", "e", "w", " ", "t", "h", "e", " ", "p", "l", "a", "n", " ", "o", "n", " ", "M", "o", "n", "d", "a", "y">>

\* words, numbers and what stands between them
Pieces ==
    { <<"T", "h", "e">>, <<"w", "i", "l", "l">>, <<"P", "l", "a", "n">>, <<"q", "3">>,
      <<"1", "0", "x">>, <<" ">>, <<"-">>, <<".", "\n">> }

RECURSIVE joinPieces(_)
joinPieces(pieces) ==
    IF pieces = <<>> THEN <<>> ELSE Head(pieces) \o joinPieces(Tail(pieces))

KeywordTexts ==
    {TextMonday}
    \cup { joinPieces(ps) : ps \in UNION { [1..n -> Pieces] : n \in 0..MaxPieces } }

KeywordInit ==
    /\ projectFiles = TeamFiles
    /\ linkedNotes = [n \in NoteIds |-> <<>>]
    /\ lastOp = NoOp
    /\ scoreIn = <<>>
    /\ scoreOut = [called |-> FALSE, ab |-> 0, ba |-> 0]
    /\ keywordsIn \in KeywordTexts
    /\ keywordsOut = [called |-> FALSE, keywords |-> {}]
    /\ noteContent = [n \in NoteIds |-> noteFiles[n].content]
    /\ calls = [p \in Procs |-> IdleCall]
    /\ applied = [n \in NoteIds |-> <<>>]

\* extractKeywords(text)
ExtractKeywords ==
    /\ ~keywordsOut.called
    /\ keywordsOut' = [called |-> TRUE, keywords |-> extractKeywords(keywordsIn)]
    /\ UNCHANGED <<projectFiles, linkedNotes, lastOp, scoreIn, scoreOut, keywordsIn,
                 noteContent, calls, applied>>

KeywordNext == ExtractKeywords

KeywordSpec == KeywordInit /\ [][KeywordNext]_vars

(***************************************************************************)
(* Properties of the keyword extractor.                                    *)
(***************************************************************************)
\* a lower-case letter or a digit
isTokenChar(c) == (\E i \in 1..Len(LowerChars) : LowerChars[i] = c) \/ c \in Digits

\* the characters of a run, as a word
RECURSIVE wordOf(_)
wordOf(chars) == IF chars = <<>> THEN "" ELSE Head(chars) \o wordOf(Tail(chars))

\* the tokens of a text: its maximal runs of letters and digits, lower-cased
tokensOf(text) ==
    LET low == lowerText(text)
        isRun(i, j) ==
            /\ \A k \in i..j : isTokenChar(low[k])
            /\ i = 1 \/ ~isTokenChar(low[i - 1])
            /\ j = Len(low) \/ ~isTokenChar(low[j + 1])
    IN  { wordOf(SubSeq(low, r[1], r[2])) :
            r \in { q \in (1..Len(low)) \X (1..Len(low)) : q[1] <= q[2] /\ isRun(q[1], q[2]) } }

\* the tokens that are kept: longer than 2, not a stop word
keptTokens(text) == { w \in tokensOf(text) : Len(w) > 2 /\ w \notin stopWords }

\* C13 as stated: extractKeywords lower-cases the text, splits it into tokens of
\* [a-z0-9], drops the tokens of length <= 2 and the stop words and returns the
\* rest as a set; on "The team will review the plan on Monday" the result is
\* exactly {team, will, review, plan, monday}.
C13_KeywordsWithWill ==
    keywordsOut.called
        => /\ keywordsOut.keywords = keptTokens(keywordsIn)
           /\ keywordsIn = TextMonday
                 => keywordsOut.keywords = {"team", "will", "review", "plan", "monday"}

\* C13 amended: extractKeywords lower-cases the text, splits it into tokens of
\* [a-z0-9], drops the tokens of length <= 2 and the stop words and returns the
\* rest as a set; on "The team will review the plan on Monday" the result is
\* exactly {team, review, plan, monday}: "will" is a stop word.
C13_KeywordsWithoutWill ==
    keywordsOut.called
        => /\ keywordsOut.keywords = keptTokens(keywordsIn)
           /\ keywordsIn = TextMonday
                 => keywordsOut.keywords = {"team", "review", "plan", "monday"}

\* the keywords of the sentence have been extracted
C13_Witness ==
    /\ keywordsOut.called
    /\ keywordsIn = TextMonday
    /\ keywordsOut.keywords # {}

(***************************************************************************)
(* Properties of the scorer.                                               *)
(***************************************************************************)
\* C10: for every note N, score(N, N) = 0: the scorer returns 0 whenever both
\* arguments have the same id, whatever their tags, content, project, date and
\* assignees.
C10_SelfScoreZero ==
    (scoreOut.called /\ scoreIn[1].id = scoreIn[2].id)
        => (scoreOut.ab = 0 /\ scoreOut.ba = 0)

\* two notes of the same id that share a tag, keywords, the project, the day and
\* an assignee have been scored
C10_Witness ==
    /\ scoreOut.called
    /\ scoreIn[1].id = scoreIn[2].id
    /\ commonTags(scoreIn[1], scoreIn[2]) > 0
    /\ scoreIn[1].content = scoreIn[2].content
    /\ scoreIn[1].project = scoreIn[2].project
    /\ scoreIn[1].date = scoreIn[2].date
    /\ assigneesOf(scoreIn[1]) \cap assigneesOf(scoreIn[2]) # {}

\* the integer nearest to num / den (den > 0), the upper one of two
nearest(num, den) ==
    CHOOSE r \in 0..(num + 1) : 2 * den * r - den <= 2 * num /\ 2 * num < 2 * den * r + den

\* the keywords of a note
keywordsOfNote(note) == extractKeywords(note.content \o <<" ">> \o note.title)

\* the parts of the score of a against b
sharedTagEntries(a, b) ==
    Cardinality({ i \in 1..Len(a.tags) : \E j \in 1..Len(b.tags) : a.tags[i] = b.tags[j] })
sharedKeywords(a, b) == Cardinality(keywordsOfNote(a) \cap keywordsOfNote(b))
mostKeywords(a, b) ==
    IF Cardinality(keywordsOfNote(a)) >= Cardinality(keywordsOfNote(b))
    THEN Cardinality(keywordsOfNote(a)) ELSE Cardinality(keywordsOfNote(b))
sharedAssignees(a, b) ==
    Cardinality({ n \in { a.actionPoints[i].assignee : i \in 1..Len(a.actionPoints) } :
                    n # "" /\ \E j \in 1..Len(b.actionPoints) : b.actionPoints[j].assignee = n })

\* the score as the sum of its terms, the keyword term rounded by itself
scoreByTerms(a, b) ==
    20 * sharedTagEntries(a, b)
    + (IF mostKeywords(a, b) > 0
       THEN nearest(50 * sharedKeywords(a, b), mostKeywords(a, b)) ELSE 0)
    + (IF a.project = b.project THEN 10 ELSE 0)
    + (IF Abs(a.date - b.date) <= 7 THEN 10 - Abs(a.date - b.date) ELSE 0)
    + 5 * sharedAssignees(a, b)

\* same project, one shared tag, 4 shared keywords out of 6, same day, no shared assignee
isScenario73(a, b) ==
    /\ a.id # b.id
    /\ a.project = b.project
    /\ sharedTagEntries(a, b) = 1
    /\ sharedKeywords(a, b) = 4 /\ mostKeywords(a, b) = 6
    /\ a.date = b.date
    /\ sharedAssignees(a, b) = 0

\* C14: for two notes of different ids, dated by whole days, score(A, B) is
\* 20 x (entries of A's tags that occur in B's tags)
\* + round(50 x overlap / max(|keywordsA|, |keywordsB|)) when that maximum is > 0
\* + 10 if same project + (10 - daysDiff) if daysDiff <= 7
\* + 5 per shared non-empty assignee; for same project, one shared tag, 4 shared
\* keywords out of 6, same day and no shared assignee the score is 73.
C14_ScoreIsSumOfTerms ==
    (scoreOut.called /\ scoreIn[1].id # scoreIn[2].id)
        => /\ scoreOut.ab = scoreByTerms(scoreIn[1], scoreIn[2])
           /\ scoreOut.ba = scoreByTerms(scoreIn[2], scoreIn[1])
           /\ isScenario73(scoreIn[1], scoreIn[2]) => scoreOut.ab = 73

\* the two notes of the scenario have been scored, in both tagged ["sprint"]
C14_Witness ==
    /\ scoreOut.called
    /\ isScenario73(scoreIn[1], scoreIn[2])
    /\ scoreIn[1].tags = <<"sprint">> /\ scoreIn[2].tags = <<"sprint">>
    /\ scoreIn[1].project = "work"

\* C9: the scorer is symmetric: score(A, B) = score(B, A) for every pair of notes.
C9_ScoreSymmetric ==
    scoreOut.called => scoreOut.ab = scoreOut.ba

(***************************************************************************)
(* The scores the Finder hands on.                                         *)
(***************************************************************************)
\* the link carries the score of the source against the linked note, as the sum
\* of the terms, whatever its size
carriesFullScore(store, projectName, noteId, link) ==
    /\ link.noteId \in NoteIds
    /\ link.relevanceScore
          = (IF link.noteId = noteId THEN 0
             ELSE scoreByTerms(getNote(store, projectName, noteId)[1],
                               markdownToNote(store, link.noteId)))

====
